---- MODULE Spec2Model ----
(***************************************************************************)
(* GolfWar projectile system (createProjectileSystem): the live projectile *)
(* collection, the loaded flag, the stabilized callback, the smoke trail   *)
(* and the per-frame update, over a heightmap terrain.                     *)
(*                                                                         *)
(* Numbers are fixed point: lengths in 1/100 world unit, velocities in     *)
(* 1/100 unit per second, accelerations in 1/100 unit per second squared,  *)
(* times in milliseconds, unit vectors and ratios in 1/100, restitution    *)
(* and friction factors in 1/1000.  Every quotient truncates toward zero.  *)
(***************************************************************************)
EXTENDS Integers, Sequences, FiniteSets, TLC

VARIABLES
    terrain,                  \* constructor argument: "none" (no terrain), "bare"
                              \* (an object without getHeightAt / getNormalAt)
                              \* or "heightmap"
    weaponAdapter,            \* the installed weapon adapter
    loadedVisual,             \* per adapter: is its loaded-ball mesh shown
    velocityInput,            \* DOM #velocityInput value (0: empty / not a number)
    massInput,                \* DOM #massInput value (0: empty / not a number)
    projectiles,              \* the live projectile array, fire order
    smokeParticles,           \* the smoke particle array
    isLoaded,                 \* cannon loaded flag
    onBallStabilizedCallback, \* registered callback ("null" when none)
    lastResult,               \* history: what the last operation returned
    hookLog,                  \* history: adapter hooks invoked by the last operation
    cleared,                  \* history: the last operation ran clearProjectiles()
    threw,                    \* history: an update raised a TypeError
    nLoads,                   \* history: loadCannon() calls so far
    nCreated,                 \* history: projectiles ever created
    pending,                  \* history: id of the projectile created by the last
                              \* successful fire(), while it has not stopped and no
                              \* loadCannon / clearProjectiles ran since (0: none)
    lostAt,                   \* history: the update that last removed a projectile
                              \* for being out of bounds (0: none yet)
    ticks,                    \* history: update() calls so far
    notifiedLog,              \* history: ids of the projectiles the last operation
                              \* invoked the stabilized callback for, in order
    advancedLog,              \* history: ids of the projectiles whose physics the
                              \* last operation advanced, one entry per advance
    adapterSet,               \* history: the adapter last given to the system, by
                              \* createProjectileSystem or setWeaponAdapter
    selection,                \* history: the shot selection passed to the last
                              \* fire(selection) (NoSelection: none was passed)
    currentIndex,             \* game state: state.currentIndex
    gameUIVisible,            \* game state: state.gameUIVisible
    stageCall,                \* history: the last game-state call and its arguments
    stageReturn,              \* history: what that call returned
    stageEvents,              \* history: the callbacks that call invoked, in order
    stageSeen,                \* history: for each of those callbacks, the index
                              \* getStageIndex() returns while it runs
    listeners,                \* game state: state.listeners, in registration order
    heightQuery,              \* history: the last terrain height query, as
                              \* <<[x, z, samples, height]>> (<<>>: none yet)
    droneState,               \* drone system: state.active and the saved camera
                              \* position, rotation, yaw and pitch
    camera,                   \* the camera's position and rotation
    droneCall,                \* history: the last drone call and its arguments
    droneReturn,              \* history: what that call returned
    activation                \* history: the camera, yaw and pitch at the last
                              \* activation that took effect (<<>>: none yet)

\* the game state machine's variables (createGameState)
stageVars == <<currentIndex, gameUIVisible, stageCall, stageReturn, stageEvents,
               stageSeen, listeners>>

\* the drone system's variables (createDroneSystem) and the camera it moves
droneVars == <<droneState, camera, droneCall, droneReturn, activation>>

vars == <<terrain, weaponAdapter, loadedVisual, velocityInput, massInput,
          projectiles, smokeParticles, isLoaded, onBallStabilizedCallback,
          lastResult, hookLog, cleared, threw, nLoads, nCreated,
          pending, lostAt, ticks, notifiedLog, advancedLog, adapterSet,
          selection, stageVars, heightQuery, droneVars>>

----------------------------------------------------------------------------
(* Bounds of the model *)

MaxLoads == 2
MaxTicks == 3
MaxBounces == 3
MaxListeners == 2

Unit == 10 * 10           \* fixed-point scale of lengths, velocities, unit vectors
Milli == 10 * Unit        \* milliseconds per second; scale of restitution factors

DtSet == {50, 100}        \* frame times offered to update(dt): 20 fps and 10 fps
RandSet == {0, 50}        \* values Math.random() may return, in 1/100

----------------------------------------------------------------------------
(* Arithmetic and THREE.Vector3 *)

\* const x = E, followed by B, is written Bind([x \in {E} |-> B]): the value
\* of E is computed once, where it is declared
Bind(f) == f[CHOOSE d \in DOMAIN f : TRUE]

Abs(a) == IF a < 0 THEN -a ELSE a
Min(a, b) == IF a < b THEN a ELSE b
Max(a, b) == IF a > b THEN a ELSE b

\* a / b for b > 0, truncated toward zero
Div(a, b) == IF a >= 0 THEN a \div b ELSE -((-a) \div b)

RECURSIVE SqrtIter(_, _)
SqrtIter(n, x) ==
    Bind([y \in {(x + n \div x) \div 2} |->
    IF y >= x THEN x ELSE SqrtIter(n, y)])

\* Math.sqrt on a non-negative integer, rounded down
Sqrt(n) ==
    Bind([m \in {n} |->
    IF m <= 0 THEN 0 ELSE SqrtIter(m, Min(m, 46340))])

Vec(a, b, c) == [x |-> a, y |-> b, z |-> c]
Zero3 == Vec(0, 0, 0)

VAdd(a, b) == Vec(a.x + b.x, a.y + b.y, a.z + b.z)
VSub(a, b) == Vec(a.x - b.x, a.y - b.y, a.z - b.z)

\* v.multiplyScalar(k / den)
VScale(v, k, den) == Vec(Div(v.x * k, den), Div(v.y * k, den), Div(v.z * k, den))

\* a.addScaledVector(v, dt) with dt in milliseconds
AddScaled(a, v, dt) == VAdd(a, VScale(v, dt, Milli))

\* a.dot(n) where n is a unit-scaled vector
Dot(a, n) == Div(a.x * n.x + a.y * n.y + a.z * n.z, Unit)

\* v.length(); components beyond 250 units are measured in tenths so that the
\* sum of squares stays within the checker's integers
Length(v) ==
    Bind([w \in {v} |->
    IF Max(Abs(w.x), Max(Abs(w.y), Abs(w.z))) <= 25000
    THEN Sqrt(w.x * w.x + w.y * w.y + w.z * w.z)
    ELSE 10 * Sqrt(Div(w.x, 10) * Div(w.x, 10) + Div(w.y, 10) * Div(w.y, 10)
                   + Div(w.z, 10) * Div(w.z, 10))])

\* v.normalize(): divideScalar(length || 1), result unit-scaled
Normalize(v) ==
    Bind([w \in {v} |->
    Bind([len \in {Length(w)} |->
    IF len = 0 THEN w ELSE VScale(w, Unit, len)])])

----------------------------------------------------------------------------
(* Heightmap terrain (createHeightmapObject) *)

\* terrain configuration: a 16 x 16 unit terrain of 4 x 4 cells, 3 units high
terrainConfig == [terrainSize |-> 1600, resolution |-> 4, maxHeight |-> 300]

verticesPerSide == terrainConfig.resolution + 1
halfSize == terrainConfig.terrainSize \div 2

\* normalized heights in 1/100, row-major (z * verticesPerSide + x): a ridge
\* along x = 0 between z = -4 and z = 4
heightData ==
    <<0, 0,   0, 0, 0,
      0, 0, 100, 0, 0,
      0, 0, 100, 0, 0,
      0, 0, 100, 0, 0,
      0, 0,   0, 0, 0>>

\* heightData[index] || 0
HeightSample(index) ==
    IF index + 1 \in DOMAIN heightData THEN heightData[index + 1] ELSE 0

\* a clamp that lets the coordinate through as it is
ClampUVNone(n) == n

\* u (or v) as a numerator over terrainSize, clamped to [0, 1]
ClampUV(n) == Max(0, Min(terrainConfig.terrainSize, n))

\* the four sample indices read for numerators (un, vn)
CornerIndices(un, vn) ==
    LET ts == terrainConfig.terrainSize
        res == terrainConfig.resolution
        x0 == (ClampUV(un) * res) \div ts
        z0 == (ClampUV(vn) * res) \div ts
        x1 == Min(x0 + 1, res)
        z1 == Min(z0 + 1, res)
    IN <<z0 * verticesPerSide + x0, z0 * verticesPerSide + x1,
         z1 * verticesPerSide + x0, z1 * verticesPerSide + x1>>

getHeightInterpolated(un, vn) ==
    Bind([ts \in {terrainConfig.terrainSize} |->
    Bind([gx \in {ClampUV(un) * terrainConfig.resolution} |->
    Bind([gz \in {ClampUV(vn) * terrainConfig.resolution} |->
    Bind([fx \in {gx - (gx \div ts) * ts} |->
    Bind([fz \in {gz - (gz \div ts) * ts} |->
    Bind([idx \in {CornerIndices(un, vn)} |->
    Bind([h0 \in {HeightSample(idx[1]) * (ts - fx) + HeightSample(idx[2]) * fx} |->
    Bind([h1 \in {HeightSample(idx[3]) * (ts - fx) + HeightSample(idx[4]) * fx} |->
    Bind([h \in {Div(h0 * (ts - fz) + h1 * fz, ts)} |->
    Div(h * terrainConfig.maxHeight, ts * Unit)])])])])])])])])])

getHeightAtWorld(worldX, worldZ) ==
    getHeightInterpolated(worldX + halfSize, worldZ + halfSize)

getNormalAtWorld(worldX, worldZ) ==
    Bind([epsilon \in {terrainConfig.terrainSize \div terrainConfig.resolution} |->
    Bind([h \in {getHeightAtWorld(worldX, worldZ)} |->
    Bind([hx \in {getHeightAtWorld(worldX + epsilon, worldZ)} |->
    Bind([hz \in {getHeightAtWorld(worldX, worldZ + epsilon)} |->
    Normalize(Vec(h - hx, epsilon, h - hz))])])])])

----------------------------------------------------------------------------
(* createProjectileSystem: constants *)

gravity == Vec(0, -981, 0)
ballRadius == 15
BoundsRadius == 100000

physics ==
    [baseRestitution |-> 650,      \* 1/1000
     friction |-> 350,             \* 1/1000
     rollingFriction |-> 250,      \* 1/100 unit per second squared
     minBounceVelocity |-> 50,
     minRollVelocity |-> 10,
     slopeFriction |-> 40,         \* 1/100
     slowRollSpeed |-> 50,
     maxSlowRollTime |-> 2000]     \* ms

smokeConfig ==
    [spawnRate |-> 20,             \* ms
     lifetime |-> 2000,            \* ms
     startSize |-> 30,
     endSize |-> 150,
     startOpacity |-> 60,
     drift |-> 50]

\* weapon adapters: muzzle world position and normalized firing direction.
\* The howitzer stands on the west slope of the ridge, its muzzle 0.2 above the
\* ground, firing level; the mortar stands on flat ground one unit inside the
\* bounds radius, firing outward.  These two are the weapons the player
\* switches between.
Adapters == {"howitzer", "mortar"}

getMuzzlePosition(a) ==
    CASE a = "howitzer" -> Vec(-300, 95, 0)
      [] a = "mortar" -> Vec(99900, 20, 0)
      [] a = "cannon" -> Vec(-700, 20, 0)

getFiringDirection(a) ==
    CASE a = "howitzer" -> Vec(100, 0, 0)
      [] a = "mortar" -> Vec(60, 80, 0)
      [] a = "cannon" -> Vec(-100, 0, 0)

\* How a session is set up: the terrain and initial weapon adapter given to
\* createProjectileSystem, and the page's #velocityInput / #massInput values.
\* Velocity 0 is an empty field (the default 20 units per second applies),
\* mass 0 an empty field (the default 10 kg applies).
Setups ==
    {[terrain |-> "heightmap", adapter |-> "howitzer", velocity |-> 20, mass |-> 0],
     [terrain |-> "heightmap", adapter |-> "mortar", velocity |-> 20, mass |-> 0],
     [terrain |-> "heightmap", adapter |-> "mortar", velocity |-> 0, mass |-> 40],
     [terrain |-> "none", adapter |-> "howitzer", velocity |-> 20, mass |-> 40]}

\* sessions without a usable terrain: none given, or an object that lacks
\* getHeightAt and getNormalAt
FlatSetups ==
    {[terrain |-> "none", adapter |-> "howitzer", velocity |-> 20, mass |-> 0],
     [terrain |-> "none", adapter |-> "mortar", velocity |-> 20, mass |-> 40],
     [terrain |-> "bare", adapter |-> "howitzer", velocity |-> 20, mass |-> 40],
     [terrain |-> "bare", adapter |-> "mortar", velocity |-> 20, mass |-> 0]}

\* sessions of slow shots (0.2 units per second) that end in a roll: the cannon
\* at the foot of the ridge with a light and a heavy ball, the howitzer on the
\* slope, the mortar on level ground
RollSetups ==
    {[terrain |-> "heightmap", adapter |-> "cannon", velocity |-> 20, mass |-> 0],
     [terrain |-> "heightmap", adapter |-> "cannon", velocity |-> 20, mass |-> 40],
     [terrain |-> "heightmap", adapter |-> "howitzer", velocity |-> 20, mass |-> 0],
     [terrain |-> "none", adapter |-> "mortar", velocity |-> 20, mass |-> 0]}

\* sessions of fast shots (the default 20 units per second), which trail smoke:
\* the mortar, whose ball leaves the bounds in its first frame, and the
\* howitzer, whose ball bounces off the ridge and flies on
SmokeSetups ==
    {[terrain |-> "heightmap", adapter |-> "mortar", velocity |-> 0, mass |-> 40],
     [terrain |-> "none", adapter |-> "mortar", velocity |-> 0, mass |-> 0],
     [terrain |-> "heightmap", adapter |-> "howitzer", velocity |-> 0, mass |-> 0]}

\* what a registered callback does: nothing, or one call back into the system
Callbacks == {"null", "noop", "clear", "fire"}

\* config.js SHOT_PROFILE: the launch speed and its Charge and Kick multipliers
\* (multipliers in 1/100)
SHOT_PROFILE ==
    [baseSpeed |-> 20 * Unit,
     charge |-> [light |-> 85, standard |-> 100, heavy |-> 120],
     kick |-> [chip |-> [speedMult |-> 92],
               full |-> [speedMult |-> 100],
               crush |-> [speedMult |-> 108]]]

\* the 3 x 3 Charge / Kick selections a caller may pass to fire()
Selections ==
    [charge : {"light", "standard", "heavy"}, kick : {"chip", "full", "crush"}]

\* fire() called with no argument
NoSelection == [charge |-> "none", kick |-> "none"]

\* values typed into #velocityInput and #massInput
VelocityInputs == {0, 20}
MassInputs == {0, 40}

\* parseFloat(value) || fallback
ParseFloatOr(value, fallback) == IF value = 0 THEN fallback ELSE value

\* a fallback plane that lets the ball's centre, not its underside, reach 0
getGroundHeightSunk(x, z) ==
    IF terrain = "heightmap" THEN getHeightAtWorld(x, z) ELSE -ballRadius

getGroundHeight(x, z) ==
    IF terrain = "heightmap" THEN getHeightAtWorld(x, z) ELSE 0

getGroundNormal(x, z) ==
    IF terrain = "heightmap" THEN getNormalAtWorld(x, z) ELSE Vec(0, Unit, 0)

\* reflectVelocity with the friction's sign slipped: the tangent gains
reflectVelocityGaining(velocity, normal, restitution, friction) ==
    Bind([vDotN \in {Dot(velocity, normal)} |->
    Bind([normalComponent \in {VScale(normal, vDotN, Unit)} |->
    Bind([tangentComponent \in {VSub(velocity, normalComponent)} |->
    Bind([reflectedNormal \in {VScale(normalComponent, -restitution, Milli)} |->
    Bind([reflectedTangent \in {VScale(tangentComponent, Milli + friction, Milli)} |->
    VAdd(reflectedNormal, reflectedTangent)])])])])])

reflectVelocity(velocity, normal, restitution, friction) ==
    Bind([vDotN \in {Dot(velocity, normal)} |->
    Bind([normalComponent \in {VScale(normal, vDotN, Unit)} |->
    Bind([tangentComponent \in {VSub(velocity, normalComponent)} |->
    Bind([reflectedNormal \in {VScale(normalComponent, -restitution, Milli)} |->
    Bind([reflectedTangent \in {VScale(tangentComponent, Milli - friction, Milli)} |->
    VAdd(reflectedNormal, reflectedTangent)])])])])])

\* r stands for the value of each Math.random() call
createSmokeParticle(position, r) ==
    [position |-> position,
     age |-> 0,
     drift |-> Vec(Div((r - 50) * smokeConfig.drift, Unit),
                   Div(r * smokeConfig.drift, 2 * Unit),
                   Div((r - 50) * smokeConfig.drift, Unit))]

----------------------------------------------------------------------------
(* The system state an operation reads and writes, as one record, so that *)
(* the stabilized callback can run operations in the middle of update().  *)

Cur ==
    [projectiles |-> projectiles,
     smokeParticles |-> smokeParticles,
     isLoaded |-> isLoaded,
     loadedVisual |-> loadedVisual,
     hookLog |-> <<>>,
     notified |-> <<>>,
     advanced |-> <<>>,
     result |-> "none",
     nLoads |-> nLoads,
     nCreated |-> nCreated,
     cleared |-> FALSE,
     pending |-> pending,
     lostAt |-> lostAt,
     tick |-> ticks]

\* an adapter whose showLoadedBall is called and leaves the mesh as it is
showLoadedBallIgnored(s, visible) ==
    [s EXCEPT !.hookLog = Append(@, <<weaponAdapter, "showLoadedBall", visible>>)]

showLoadedBall(s, visible) ==
    [s EXCEPT !.loadedVisual[weaponAdapter] = visible,
              !.hookLog = Append(@, <<weaponAdapter, "showLoadedBall", visible>>)]

triggerFire(s) ==
    [s EXCEPT !.hookLog = Append(@, <<weaponAdapter, "triggerFire", TRUE>>)]

\* id (creation order), firedAt (updates run before it was fired),
\* notifications (callback invocations for this projectile) and stoppedAt (the
\* update in which it entered stopped, 0 while it has not) are history fields;
\* the rest is the pushed object
NewProjectile(id, firedAt, muzzleWorld, direction, velocity, mass) ==
    [id |-> id,
     firedAt |-> firedAt,
     notifications |-> 0,
     stoppedAt |-> 0,
     position |-> muzzleWorld,
     velocity |-> VScale(direction, velocity, Unit),
     mass |-> mass,
     smokeTimer |-> 0,
     state |-> "flying",
     bounceCount |-> 0,
     slowRollTime |-> 0,
     notifiedStabilized |-> FALSE,
     launchPosition |-> muzzleWorld]

\* fire() without the isLoaded test
fireUnguarded(s) ==
    LET id == s.nCreated + 1
        pushed == [s EXCEPT
            !.projectiles = Append(@, NewProjectile(id, s.tick,
                                       getMuzzlePosition(weaponAdapter),
                                       getFiringDirection(weaponAdapter),
                                       ParseFloatOr(velocityInput, 20 * Unit),
                                       ParseFloatOr(massInput, 10))),
            !.nCreated = id,
            !.pending = id,
            !.isLoaded = FALSE]
    IN [triggerFire(showLoadedBall(pushed, FALSE)) EXCEPT !.result = "true"]

fire(s) ==
    IF ~s.isLoaded
    THEN [s EXCEPT !.result = "false"]
    ELSE LET velocity == ParseFloatOr(velocityInput, 20 * Unit)
             mass == ParseFloatOr(massInput, 10)
             muzzleWorld == getMuzzlePosition(weaponAdapter)
             direction == getFiringDirection(weaponAdapter)
             id == s.nCreated + 1
             pushed == [s EXCEPT
                 !.projectiles = Append(@, NewProjectile(id, s.tick, muzzleWorld,
                                                         direction, velocity, mass)),
                 !.nCreated = id,
                 !.pending = id,
                 !.isLoaded = FALSE]
         IN [triggerFire(showLoadedBall(pushed, FALSE)) EXCEPT !.result = "true"]

loadCannon(s) ==
    showLoadedBall([s EXCEPT !.isLoaded = TRUE, !.nLoads = @ + 1, !.pending = 0], TRUE)

\* unloadCannon() that chambers instead of unchambering
unloadCannonChambers(s) ==
    showLoadedBall([s EXCEPT !.isLoaded = TRUE], FALSE)

unloadCannon(s) ==
    showLoadedBall([s EXCEPT !.isLoaded = FALSE], FALSE)

\* clearProjectiles() that takes the meshes off the scene and forgets to empty
\* the array
clearProjectilesSceneOnly(s) ==
    [s EXCEPT !.cleared = TRUE, !.pending = 0]

clearProjectiles(s) ==
    [s EXCEPT !.projectiles = <<>>, !.cleared = TRUE, !.pending = 0]

\* the registered callback, called with the stabilized projectile
InvokeCallback(cb, s) ==
    CASE cb = "clear" -> clearProjectiles(s)
      [] cb = "fire" -> [fire(s) EXCEPT !.result = s.result]
      [] OTHER -> s

----------------------------------------------------------------------------
(* update(dt): one projectile's step *)

\* a floor that forgets the ball's radius
FloorHeightAtSurface(groundHeight) == groundHeight

\* groundHeight + ballRadius: where the ball's centre rests on the ground
FloorHeight(groundHeight) == groundHeight + ballRadius

\* a ground event that freezes a low-speed impact on the spot
GroundEventStateStopsDead(impactSpeed) ==
    IF impactSpeed < physics.minBounceVelocity THEN "stopped" ELSE "bouncing"

\* a ground event that bounces however low the impact speed
GroundEventStateAlwaysBounces(impactSpeed) == "bouncing"

\* the state a ground event leaves the projectile in
GroundEventState(impactSpeed) ==
    IF impactSpeed < physics.minBounceVelocity THEN "rolling" ELSE "bouncing"

\* flying / bouncing: gravity, move, smoke spawn, terrain collision.
\* Returns the projectile and the smoke particles it spawned.
AirborneStep(proj, dt, r) ==
    Bind([velocity \in {AddScaled(proj.velocity, gravity, dt)} |->
    Bind([moved \in {AddScaled(proj.position, velocity, dt)} |->
    Bind([fast \in {Length(velocity) > 5 * Unit} |->
    Bind([timer \in {IF fast THEN proj.smokeTimer + dt ELSE proj.smokeTimer} |->
    Bind([spawn \in {fast /\ timer >= smokeConfig.spawnRate} |->
    Bind([smoke \in {IF spawn THEN <<createSmokeParticle(moved, r)>> ELSE <<>>} |->
    Bind([floorHeight \in {FloorHeight(getGroundHeight(moved.x, moved.z))} |->
    Bind([hit \in {moved.y <= floorHeight} |->
    Bind([flown \in {[proj EXCEPT
            !.velocity = velocity,
            !.position = IF hit THEN [moved EXCEPT !.y = floorHeight] ELSE moved,
            !.smokeTimer = IF spawn THEN 0 ELSE timer]} |->
    IF ~hit THEN [proj |-> flown, smoke |-> smoke]
    ELSE
    Bind([normal \in {getGroundNormal(moved.x, moved.z)} |->
    Bind([vDotN \in {Dot(velocity, normal)} |->
    Bind([impactSpeed \in {Abs(vDotN)} |->
    Bind([massRatio \in {Min(Div(proj.mass * Unit, 20), 150)} |->
    Bind([speedFactor \in {Max(800, Milli - Div(impactSpeed * 5, Unit))} |->
    Bind([restitution \in {Div(Div(physics.baseRestitution * massRatio, Unit) * speedFactor, Milli)} |->
    [proj |->
        IF impactSpeed < physics.minBounceVelocity
        THEN [flown EXCEPT
                 !.state = GroundEventState(impactSpeed),
                 !.velocity = IF vDotN < 0
                              THEN VSub(velocity, VScale(normal, vDotN, Unit))
                              ELSE velocity]
        ELSE [flown EXCEPT
                 !.state = GroundEventState(impactSpeed),
                 !.bounceCount = @ + 1,
                 !.velocity = reflectVelocity(velocity, normal,
                                              Min(restitution, 950),
                                              physics.friction)],
     smoke |-> smoke]])])])])])])])])])])])])])])])

\* a rolling step whose expired slow-roll timer still waits for the slope
\* acceleration to drop
RollingStepNeverForced(proj, dt) ==
    Bind([groundHeight \in {getGroundHeight(proj.position.x, proj.position.z)} |->
    Bind([normal \in {getGroundNormal(proj.position.x, proj.position.z)} |->
    Bind([locked \in {[proj.position EXCEPT !.y = FloorHeight(groundHeight)]} |->
    Bind([gravityDotNormal \in {Dot(gravity, normal)} |->
    Bind([slopeAccel \in {VSub(gravity, VScale(normal, gravityDotNormal, Unit))} |->
    Bind([accelerated \in {AddScaled(proj.velocity, slopeAccel, dt)} |->
    Bind([vDotN \in {Dot(accelerated, normal)} |->
    Bind([velocity \in {IF vDotN < 0
        THEN VSub(accelerated, VScale(normal, vDotN, Unit))
        ELSE accelerated} |->
    Bind([speed \in {Length(velocity)} |->
    Bind([slopeSteepness \in {Unit - normal.y} |->
    Bind([extraFriction \in {Div(slopeSteepness * physics.slopeFriction, Unit)} |->
    Bind([slowRollTime \in {IF speed < physics.slowRollSpeed
        THEN proj.slowRollTime + dt ELSE 0} |->
    Bind([forceStop \in {slowRollTime >= physics.maxSlowRollTime} |->
    Bind([base \in {[proj EXCEPT !.position = locked, !.velocity = velocity,
                     !.slowRollTime = slowRollTime]} |->
    IF speed < physics.minRollVelocity \/ forceStop
    THEN IF Length(slopeAccel) < physics.minRollVelocity * 2
         THEN [proj |-> [base EXCEPT !.state = "stopped", !.velocity = Zero3],
               stoppedNow |-> TRUE]
         ELSE [proj |-> base, stoppedNow |-> FALSE]
    ELSE
    Bind([totalFriction \in {Div((physics.rollingFriction + extraFriction) * dt, Milli)} |->
    Bind([newSpeed \in {Max(0, speed - totalFriction)} |->
    Bind([slowed \in {IF speed > 0 THEN VScale(velocity, newSpeed, speed) ELSE Zero3} |->
    Bind([rolled \in {AddScaled(locked, slowed, dt)} |->
    Bind([newGroundHeight \in {getGroundHeight(rolled.x, rolled.z)} |->
    [proj |-> [base EXCEPT
                  !.velocity = slowed,
                  !.position = [rolled EXCEPT !.y = FloorHeight(newGroundHeight)]],
     stoppedNow |-> FALSE]])])])])])])])])])])])])])])])])])])])

\* a rolling step whose slow-roll timer pauses at speed instead of being reset
RollingStepTimerKept(proj, dt) ==
    Bind([groundHeight \in {getGroundHeight(proj.position.x, proj.position.z)} |->
    Bind([normal \in {getGroundNormal(proj.position.x, proj.position.z)} |->
    Bind([locked \in {[proj.position EXCEPT !.y = FloorHeight(groundHeight)]} |->
    Bind([gravityDotNormal \in {Dot(gravity, normal)} |->
    Bind([slopeAccel \in {VSub(gravity, VScale(normal, gravityDotNormal, Unit))} |->
    Bind([accelerated \in {AddScaled(proj.velocity, slopeAccel, dt)} |->
    Bind([vDotN \in {Dot(accelerated, normal)} |->
    Bind([velocity \in {IF vDotN < 0
        THEN VSub(accelerated, VScale(normal, vDotN, Unit))
        ELSE accelerated} |->
    Bind([speed \in {Length(velocity)} |->
    Bind([slopeSteepness \in {Unit - normal.y} |->
    Bind([extraFriction \in {Div(slopeSteepness * physics.slopeFriction, Unit)} |->
    Bind([slowRollTime \in {IF speed < physics.slowRollSpeed
        THEN proj.slowRollTime + dt ELSE proj.slowRollTime} |->
    Bind([forceStop \in {slowRollTime >= physics.maxSlowRollTime} |->
    Bind([base \in {[proj EXCEPT !.position = locked, !.velocity = velocity,
                     !.slowRollTime = slowRollTime]} |->
    IF speed < physics.minRollVelocity \/ forceStop
    THEN IF forceStop \/ Length(slopeAccel) < physics.minRollVelocity * 2
         THEN [proj |-> [base EXCEPT !.state = "stopped", !.velocity = Zero3],
               stoppedNow |-> TRUE]
         ELSE [proj |-> base, stoppedNow |-> FALSE]
    ELSE
    Bind([totalFriction \in {Div((physics.rollingFriction + extraFriction) * dt, Milli)} |->
    Bind([newSpeed \in {Max(0, speed - totalFriction)} |->
    Bind([slowed \in {IF speed > 0 THEN VScale(velocity, newSpeed, speed) ELSE Zero3} |->
    Bind([rolled \in {AddScaled(locked, slowed, dt)} |->
    Bind([newGroundHeight \in {getGroundHeight(rolled.x, rolled.z)} |->
    [proj |-> [base EXCEPT
                  !.velocity = slowed,
                  !.position = [rolled EXCEPT !.y = FloorHeight(newGroundHeight)]],
     stoppedNow |-> FALSE]])])])])])])])])])])])])])])])])])])])

\* rolling: surface lock, slope acceleration, slow-roll timer, stop or friction.
\* Returns the projectile and whether it entered stopped in this step.
RollingStep(proj, dt) ==
    Bind([groundHeight \in {getGroundHeight(proj.position.x, proj.position.z)} |->
    Bind([normal \in {getGroundNormal(proj.position.x, proj.position.z)} |->
    Bind([locked \in {[proj.position EXCEPT !.y = FloorHeight(groundHeight)]} |->
    Bind([gravityDotNormal \in {Dot(gravity, normal)} |->
    Bind([slopeAccel \in {VSub(gravity, VScale(normal, gravityDotNormal, Unit))} |->
    Bind([accelerated \in {AddScaled(proj.velocity, slopeAccel, dt)} |->
    Bind([vDotN \in {Dot(accelerated, normal)} |->
    Bind([velocity \in {IF vDotN < 0
        THEN VSub(accelerated, VScale(normal, vDotN, Unit))
        ELSE accelerated} |->
    Bind([speed \in {Length(velocity)} |->
    Bind([slopeSteepness \in {Unit - normal.y} |->
    Bind([extraFriction \in {Div(slopeSteepness * physics.slopeFriction, Unit)} |->
    Bind([slowRollTime \in {IF speed < physics.slowRollSpeed
        THEN proj.slowRollTime + dt ELSE 0} |->
    Bind([forceStop \in {slowRollTime >= physics.maxSlowRollTime} |->
    Bind([base \in {[proj EXCEPT !.position = locked, !.velocity = velocity,
                     !.slowRollTime = slowRollTime]} |->
    IF speed < physics.minRollVelocity \/ forceStop
    THEN IF forceStop \/ Length(slopeAccel) < physics.minRollVelocity * 2
         THEN [proj |-> [base EXCEPT !.state = "stopped", !.velocity = Zero3],
               stoppedNow |-> TRUE]
         ELSE [proj |-> base, stoppedNow |-> FALSE]
    ELSE
    Bind([totalFriction \in {Div((physics.rollingFriction + extraFriction) * dt, Milli)} |->
    Bind([newSpeed \in {Max(0, speed - totalFriction)} |->
    Bind([slowed \in {IF speed > 0 THEN VScale(velocity, newSpeed, speed) ELSE Zero3} |->
    Bind([rolled \in {AddScaled(locked, slowed, dt)} |->
    Bind([newGroundHeight \in {getGroundHeight(rolled.x, rolled.z)} |->
    [proj |-> [base EXCEPT
                  !.velocity = slowed,
                  !.position = [rolled EXCEPT !.y = FloorHeight(newGroundHeight)]],
     stoppedNow |-> FALSE]])])])])])])])])])])])])])])])])])])])

\* a bounds check that never fires
OutOfBoundsNever(position) == FALSE

OutOfBounds(position) == Length(position) > BoundsRadius

\* projectiles.splice(i, 1), i counted from 1
Splice(seq, i) ==
    IF i \in DOMAIN seq
    THEN SubSeq(seq, 1, i - 1) \o SubSeq(seq, i + 1, Len(seq))
    ELSE seq

\* a notification test that ignores whether a callback is registered
ShouldNotifyUnregistered(proj, cb) == ~proj.notifiedStabilized

\* if (!proj.notifiedStabilized && onBallStabilizedCallback), on entering stopped
ShouldNotify(proj, cb) == ~proj.notifiedStabilized /\ cb # "null"

\* the body of the projectile loop for index i (the entry exists and is not
\* stopped): physics, stop notification, out-of-bounds removal
StepProjectile(i, s, dt, r, cb) ==
    Bind([proj \in {s.projectiles[i]} |->
    Bind([air \in {IF proj.state \in {"flying", "bouncing"}
        THEN AirborneStep(proj, dt, r)
        ELSE [proj |-> proj, smoke |-> <<>>]} |->
    Bind([roll \in {IF air.proj.state = "rolling"
        THEN RollingStep(air.proj, dt)
        ELSE [proj |-> air.proj, stoppedNow |-> FALSE]} |->
    Bind([notify \in {roll.stoppedNow /\ ShouldNotify(roll.proj, cb)} |->
    Bind([done \in {[roll.proj EXCEPT
            !.stoppedAt = IF roll.stoppedNow THEN s.tick ELSE @,
            !.notifiedStabilized = IF notify THEN TRUE ELSE @,
            !.notifications = IF notify THEN @ + 1 ELSE @]} |->
    Bind([written \in {[s EXCEPT
            !.projectiles[i] = done,
            !.smokeParticles = @ \o air.smoke,
            !.notified = IF notify THEN Append(@, done.id) ELSE @,
            !.advanced = Append(@, done.id),
            !.pending = IF roll.stoppedNow /\ @ = done.id THEN 0 ELSE @]} |->
    Bind([called \in {IF notify THEN InvokeCallback(cb, written) ELSE written} |->
    IF OutOfBounds(done.position)
    THEN [called EXCEPT !.projectiles = Splice(@, i), !.lostAt = s.tick]
    ELSE called])])])])])])])

\* for (let i = projectiles.length - 1; i >= 0; i--), i counted from 1.
\* Reading .state of a missing entry raises a TypeError, which ends update().
RECURSIVE UpdateProjectiles(_, _, _, _, _)
UpdateProjectiles(i, s, dt, r, cb) ==
    IF i < 1 THEN s
    ELSE IF i > Len(s.projectiles) THEN [s EXCEPT !.result = "TypeError"]
    ELSE IF s.projectiles[i].state = "stopped"
    THEN UpdateProjectiles(i - 1, s, dt, r, cb)
    ELSE Bind([stepped \in {StepProjectile(i, s, dt, r, cb)} |->
         UpdateProjectiles(i - 1, stepped, dt, r, cb)])

\* a smoke loop that lets a particle reach the lifetime and removes it a
\* frame later
RECURSIVE UpdateSmokeLingering(_, _, _)
UpdateSmokeLingering(i, particles, dt) ==
    IF i < 1 THEN particles
    ELSE Bind([smoke \in {particles[i]} |->
         Bind([age \in {smoke.age + dt} |->
         Bind([rest \in {IF age > smokeConfig.lifetime
             THEN Splice(particles, i)
             ELSE [particles EXCEPT
                      ![i] = [smoke EXCEPT
                                 !.age = age,
                                 !.position = AddScaled(@, smoke.drift, dt)]]} |->
         UpdateSmokeLingering(i - 1, rest, dt)])])])

\* the smoke loop, last particle first: age, then expire or drift
RECURSIVE UpdateSmoke(_, _, _)
UpdateSmoke(i, particles, dt) ==
    IF i < 1 THEN particles
    ELSE Bind([smoke \in {particles[i]} |->
         Bind([age \in {smoke.age + dt} |->
         Bind([rest \in {IF age >= smokeConfig.lifetime
             THEN Splice(particles, i)
             ELSE [particles EXCEPT
                      ![i] = [smoke EXCEPT
                                 !.age = age,
                                 !.position = AddScaled(@, smoke.drift, dt)]]} |->
         UpdateSmoke(i - 1, rest, dt)])])])

\* update() that first compacts the collection, dropping settled entries
updateDroppingStopped(s, dt, r, cb) ==
    Bind([started \in {[s EXCEPT
            !.tick = @ + 1,
            !.projectiles = SelectSeq(@, LAMBDA p : p.state # "stopped")]} |->
    Bind([after \in {UpdateProjectiles(Len(started.projectiles), started, dt, r, cb)} |->
    IF after.result = "TypeError" THEN after
    ELSE [after EXCEPT !.smokeParticles = UpdateSmoke(Len(@), @, dt)]])])

\* update() on projectiles whose launchPosition is the mesh position itself,
\* not a clone of the muzzle position: it follows the ball
updateTrackingLaunch(s, dt, r, cb) ==
    Bind([started \in {[s EXCEPT !.tick = @ + 1]} |->
    Bind([after \in {UpdateProjectiles(Len(started.projectiles), started, dt, r, cb)} |->
    IF after.result = "TypeError" THEN after
    ELSE [after EXCEPT
             !.smokeParticles = UpdateSmoke(Len(@), @, dt),
             !.projectiles =
                 [i \in DOMAIN @ |->
                     [@[i] EXCEPT !.launchPosition = after.projectiles[i].position]]]])])

\* update() whose smoke sprites share the position vector of the ball they
\* trail: the drift drawn for the smoke moves every ball still in motion
updateSharingPosition(s, dt, r, cb) ==
    Bind([started \in {[s EXCEPT !.tick = @ + 1]} |->
    Bind([after \in {UpdateProjectiles(Len(started.projectiles), started, dt, r, cb)} |->
    IF after.result = "TypeError" THEN after
    ELSE [after EXCEPT
             !.smokeParticles = UpdateSmoke(Len(@), @, dt),
             !.projectiles =
                 [i \in DOMAIN @ |->
                     IF @[i].state = "stopped" THEN @[i]
                     ELSE [@[i] EXCEPT !.position =
                              AddScaled(@, createSmokeParticle(@, r).drift, dt)]]]])])

update(s, dt, r, cb) ==
    Bind([started \in {[s EXCEPT !.tick = @ + 1]} |->
    Bind([after \in {UpdateProjectiles(Len(started.projectiles), started, dt, r, cb)} |->
    IF after.result = "TypeError" THEN after
    ELSE [after EXCEPT !.smokeParticles = UpdateSmoke(Len(@), @, dt)]])])

----------------------------------------------------------------------------
(* Queries *)

IsLoaded == isLoaded

\* an availability test that forgets the projectiles in flight
IsBallAvailableUnloaded == ~isLoaded

IsBallAvailable ==
    IF isLoaded THEN FALSE
    ELSE ~(\E i \in DOMAIN projectiles : projectiles[i].state # "stopped")

\* isBallStabilized() that looks at the head of the array
IsBallStabilizedOldest ==
    IF Len(projectiles) = 0 THEN FALSE
    ELSE projectiles[1].state = "stopped"

IsBallStabilized ==
    IF Len(projectiles) = 0 THEN FALSE
    ELSE projectiles[Len(projectiles)].state = "stopped"

\* getBallPosition(): null is <<>>, a position v is <<v>>
getBallPosition ==
    IF Len(projectiles) = 0 THEN <<>>
    ELSE <<projectiles[Len(projectiles)].position>>

\* getBallDistance(): null is <<>>, a distance d is <<d>>
getBallDistance ==
    IF Len(projectiles) = 0 THEN <<>>
    ELSE Bind([proj \in {projectiles[Len(projectiles)]} |->
         Bind([dx \in {proj.position.x - proj.launchPosition.x} |->
         Bind([dz \in {proj.position.z - proj.launchPosition.z} |->
         <<Length(Vec(dx, 0, dz))>>])])])

----------------------------------------------------------------------------
(* Operations *)

\* the operation's outcome becomes the system's state
Commit(outcome) ==
    \E s \in {outcome} :
        /\ projectiles' = s.projectiles
        /\ smokeParticles' = s.smokeParticles
        /\ isLoaded' = s.isLoaded
        /\ loadedVisual' = s.loadedVisual
        /\ hookLog' = s.hookLog
        /\ notifiedLog' = s.notified
        /\ advancedLog' = s.advanced
        /\ lastResult' = s.result
        /\ threw' = (threw \/ s.result = "TypeError")
        /\ nLoads' = s.nLoads
        /\ nCreated' = s.nCreated
        /\ cleared' = s.cleared
        /\ pending' = s.pending
        /\ lostAt' = s.lostAt

InitWith(setups) ==
    /\ \E setup \in setups :
          /\ terrain = setup.terrain
          /\ weaponAdapter = setup.adapter
          /\ adapterSet = setup.adapter
          /\ velocityInput = setup.velocity
          /\ massInput = setup.mass
    /\ loadedVisual = [a \in (Adapters \cup {"cannon"}) |-> FALSE]
    /\ projectiles = <<>>
    /\ smokeParticles = <<>>
    /\ isLoaded = FALSE
    /\ onBallStabilizedCallback = "null"
    /\ lastResult = "none"
    /\ hookLog = <<>>
    /\ notifiedLog = <<>>
    /\ advancedLog = <<>>
    /\ cleared = FALSE
    /\ threw = FALSE
    /\ nLoads = 0
    /\ nCreated = 0
    /\ pending = 0
    /\ lostAt = 0
    /\ ticks = 0
    /\ selection = NoSelection
    /\ currentIndex = 0
    /\ gameUIVisible = FALSE
    /\ stageCall = <<"none">>
    /\ stageReturn = "none"
    /\ stageEvents = <<>>
    /\ stageSeen = <<>>
    /\ listeners = <<>>
    /\ heightQuery = <<>>
    /\ droneState = [active |-> FALSE,
                     savedCameraPosition |-> Zero3,
                     savedCameraRotation |-> Zero3,
                     savedYaw |-> 0,
                     savedPitch |-> 0,
                     startHeight |-> 25 * Unit]
    /\ camera = [position |-> Vec(0, 2 * Unit, 5 * Unit), rotation |-> Zero3]
    /\ droneCall = <<"none">>
    /\ droneReturn = [kind |-> "undefined"]
    /\ activation = <<>>

Init == InitWith(Setups)

LoadCannon ==
    /\ nLoads < MaxLoads
    /\ Commit(loadCannon(Cur))
    /\ UNCHANGED <<adapterSet, selection, stageVars, heightQuery, droneVars>>
    /\ UNCHANGED <<terrain, weaponAdapter, velocityInput, massInput,
                   onBallStabilizedCallback, ticks>>

UnloadCannon ==
    /\ Commit(unloadCannon(Cur))
    /\ UNCHANGED <<adapterSet, selection, stageVars, heightQuery, droneVars>>
    /\ UNCHANGED <<terrain, weaponAdapter, velocityInput, massInput,
                   onBallStabilizedCallback, ticks>>

Fire ==
    /\ Commit(fire(Cur))
    /\ UNCHANGED <<adapterSet, selection, stageVars, heightQuery, droneVars>>
    /\ UNCHANGED <<terrain, weaponAdapter, velocityInput, massInput,
                   onBallStabilizedCallback, ticks>>

Update ==
    /\ ticks < MaxTicks
    /\ \E dt \in DtSet, r \in RandSet :
          Commit(update(Cur, dt, r, onBallStabilizedCallback))
    /\ ticks' = ticks + 1
    /\ UNCHANGED <<adapterSet, selection, stageVars, heightQuery, droneVars>>
    /\ UNCHANGED <<terrain, weaponAdapter, velocityInput, massInput,
                   onBallStabilizedCallback>>

ClearProjectiles ==
    /\ Commit(clearProjectiles(Cur))
    /\ UNCHANGED <<adapterSet, selection, stageVars, heightQuery, droneVars>>
    /\ UNCHANGED <<terrain, weaponAdapter, velocityInput, massInput,
                   onBallStabilizedCallback, ticks>>

OnBallStabilized ==
    /\ \E cb \in Callbacks : onBallStabilizedCallback' = cb
    /\ Commit(Cur)
    /\ UNCHANGED <<adapterSet, selection, stageVars, heightQuery, droneVars>>
    /\ UNCHANGED <<terrain, weaponAdapter, velocityInput, massInput, ticks>>

Next ==
    \/ LoadCannon
    \/ UnloadCannon
    \/ Fire
    \/ Update
    \/ ClearProjectiles
    \/ OnBallStabilized

Spec == Init /\ [][Next]_vars

----------------------------------------------------------------------------
(* The frame loop: update(dt) is called every frame, with a steady frame
   time, while the player loads and fires *)

LiveDtSet == {100}

\* bounceCount is only ever incremented and never read by the physics; the
\* frame loop's state keeps it up to MaxBounces
CapBounces(s) ==
    [s EXCEPT !.projectiles =
        [i \in DOMAIN @ |-> [@[i] EXCEPT !.bounceCount = Min(@, MaxBounces)]]]

Frame ==
    /\ \E dt \in LiveDtSet, r \in RandSet :
          Commit(CapBounces(update(Cur, dt, r, onBallStabilizedCallback)))
    /\ UNCHANGED <<adapterSet, selection, stageVars, heightQuery, droneVars>>
    /\ UNCHANGED <<terrain, weaponAdapter, velocityInput, massInput,
                   onBallStabilizedCallback, ticks>>

NextLive ==
    \/ LoadCannon
    \/ Fire
    \/ Frame

\* the mass field left to its default
InitLive == Init /\ massInput = 0

SpecLive == InitLive /\ [][NextLive]_vars /\ WF_vars(Frame)

\* the same loop in a session without a usable terrain
InitFlat == InitWith(FlatSetups)

SpecFlat == InitFlat /\ [][NextLive]_vars

Roll ==
    /\ \E dt \in {50}, r \in RandSet :
          Commit(CapBounces(update(Cur, dt, r, onBallStabilizedCallback)))
    /\ UNCHANGED <<adapterSet, selection, stageVars, heightQuery, droneVars>>
    /\ UNCHANGED <<terrain, weaponAdapter, velocityInput, massInput,
                   onBallStabilizedCallback, ticks>>

NextRoll ==
    \/ LoadCannon
    \/ Fire
    \/ Roll

SpecRoll == InitWith(RollSetups) /\ [][NextRoll]_vars

\* the frame loop at 10 frames per second for as long as the smoke lives, with
\* one value drawn for every drift
Puff ==
    /\ \E dt \in LiveDtSet, r \in {CHOOSE r \in RandSet : r > 0} :
          Commit(CapBounces(update(Cur, dt, r, onBallStabilizedCallback)))
    /\ UNCHANGED <<adapterSet, selection, stageVars, heightQuery, droneVars>>
    /\ UNCHANGED <<terrain, weaponAdapter, velocityInput, massInput,
                   onBallStabilizedCallback, ticks>>

NextSmoke ==
    \/ LoadCannon
    \/ Fire
    \/ Puff

SpecSmoke == InitWith(SmokeSetups) /\ [][NextSmoke]_vars

----------------------------------------------------------------------------
(* The player's controls: the weapon is switched, the launch inputs are
   edited and shots are fired with a selection, between updates *)

\* setWeaponAdapter(adapter) whose assignment is lost
setWeaponAdapterLost(adapter) == weaponAdapter

\* setWeaponAdapter(adapter): the value weaponAdapter takes
setWeaponAdapter(adapter) == adapter

SetWeaponAdapter ==
    /\ \E adapter \in Adapters :
          /\ weaponAdapter' = setWeaponAdapter(adapter)
          /\ adapterSet' = adapter
    /\ Commit(Cur)
    /\ UNCHANGED <<selection, stageVars, heightQuery, droneVars>>
    /\ UNCHANGED <<terrain, velocityInput, massInput,
                   onBallStabilizedCallback, ticks>>

\* the player types into the page's launch inputs
EditInputs ==
    /\ \E v \in VelocityInputs, m \in MassInputs :
          /\ velocityInput' = v
          /\ massInput' = m
    /\ Commit(Cur)
    /\ UNCHANGED <<adapterSet, selection, stageVars, heightQuery, droneVars>>
    /\ UNCHANGED <<terrain, weaponAdapter, onBallStabilizedCallback, ticks>>

\* a frame of the steady frame loop, up to MaxTicks of them
Tick ==
    /\ ticks < MaxTicks
    /\ \E dt \in LiveDtSet, r \in {CHOOSE r \in RandSet : TRUE} :
          Commit(update(Cur, dt, r, onBallStabilizedCallback))
    /\ ticks' = ticks + 1
    /\ UNCHANGED <<adapterSet, selection, stageVars, heightQuery, droneVars>>
    /\ UNCHANGED <<terrain, weaponAdapter, velocityInput, massInput,
                   onBallStabilizedCallback>>

NextControls ==
    \/ LoadCannon
    \/ Fire
    \/ Tick
    \/ SetWeaponAdapter
    \/ EditInputs

\* a session over the heightmap
InitControls == Init /\ terrain = "heightmap"

SpecControls == InitControls /\ [][NextControls]_vars

\* arming: the cannon is loaded, unloaded and fired while the weapon is
\* switched, with no frame in between
NextArming ==
    \/ LoadCannon
    \/ UnloadCannon
    \/ Fire
    \/ SetWeaponAdapter

SpecArming == Init /\ [][NextArming]_vars

\* fire(selection): fire() declares no parameter, the argument is dropped
FireSelection ==
    /\ \E sel \in Selections : selection' = sel
    /\ Commit(fire(Cur))
    /\ UNCHANGED <<adapterSet, stageVars, heightQuery, droneVars>>
    /\ UNCHANGED <<terrain, weaponAdapter, velocityInput, massInput,
                   onBallStabilizedCallback, ticks>>

NextShots ==
    \/ LoadCannon
    \/ FireSelection
    \/ Update

SpecShots == Init /\ [][NextShots]_vars

----------------------------------------------------------------------------
(* The game state machine (createGameState): the stage the player is in *)

\* the projectile system's variables, which the game state machine never touches
cannonVars == <<terrain, weaponAdapter, loadedVisual, velocityInput, massInput,
                projectiles, smokeParticles, isLoaded, onBallStabilizedCallback,
                lastResult, hookLog, cleared, threw, nLoads, nCreated,
                pending, lostAt, ticks, notifiedLog, advancedLog, adapterSet,
                selection>>

\* STAGES, indexed from 0 as in the source
STAGES ==
    [i \in 0..5 |->
        <<[id |-> "idle", gameUI |-> "null", canCycle |-> TRUE,
           action |-> "goToDroneView"],
          [id |-> "setup-projectile", gameUI |-> "projectile", canCycle |-> TRUE,
           action |-> "toggleGameUI"],
          [id |-> "adjust-cannon", gameUI |-> "cannon", canCycle |-> TRUE,
           action |-> "toggleGameUI"],
          [id |-> "fire-cannon", gameUI |-> "null", canCycle |-> TRUE,
           action |-> "fireCannon"],
          [id |-> "drone-view", gameUI |-> "null", canCycle |-> FALSE,
           action |-> "exitDroneView"],
          [id |-> "move-next", gameUI |-> "null", canCycle |-> TRUE,
           action |-> "null"]>>[i + 1]]

\* STAGES.length
NumStages == 6

\* the indices a caller may pass to goToStage, two of them out of range
StageArgs == -1..NumStages

\* the game state an operation reads and writes, with what it returned, the
\* callbacks it invoked and the stage index each of them could read
Game ==
    [currentIndex |-> currentIndex,
     gameUIVisible |-> gameUIVisible,
     listeners |-> listeners,
     ret |-> "undefined",
     events |-> <<>>,
     seen |-> <<>>]

canCycle(g) == STAGES[g.currentIndex].canCycle

\* a callback is invoked: it runs with the game state as it is at that moment
Call(g, event) ==
    [g EXCEPT !.events = Append(@, event), !.seen = Append(@, g.currentIndex)]

\* forEach that calls the listeners last registered first
RECURSIVE NotifyListenersReversed(_, _, _, _)
NotifyListenersReversed(g, k, newIndex, oldIndex) ==
    IF k > Len(g.listeners) THEN g
    ELSE NotifyListenersReversed(
             Call(g, <<"listener", g.listeners[Len(g.listeners) + 1 - k],
                       newIndex, oldIndex>>),
             k + 1, newIndex, oldIndex)

\* state.listeners.forEach(fn => fn(newStage, oldStage)), from the k-th on
RECURSIVE NotifyListeners(_, _, _, _)
NotifyListeners(g, k, newIndex, oldIndex) ==
    IF k > Len(g.listeners) THEN g
    ELSE NotifyListeners(Call(g, <<"listener", g.listeners[k], newIndex, oldIndex>>),
                         k + 1, newIndex, oldIndex)

\* setStage() that leaves the Game UI flag as it finds it
setStageKeepingUI(g, newIndex) ==
    IF newIndex < 0 \/ newIndex >= NumStages THEN [g EXCEPT !.ret = "false"]
    ELSE IF g.currentIndex = newIndex THEN [g EXCEPT !.ret = "false"]
    ELSE Bind([oldIndex \in {g.currentIndex} |->
         Bind([exited \in {Call(g, <<"onStageExit", oldIndex>>)} |->
         Bind([switched \in {[exited EXCEPT !.currentIndex = newIndex]} |->
         Bind([entered \in {Call(switched, <<"onStageEnter", newIndex>>)} |->
         [NotifyListeners(entered, 1, newIndex, oldIndex) EXCEPT !.ret = "true"]])])])])

setStage(g, newIndex) ==
    IF newIndex < 0 \/ newIndex >= NumStages THEN [g EXCEPT !.ret = "false"]
    ELSE IF g.currentIndex = newIndex THEN [g EXCEPT !.ret = "false"]
    ELSE Bind([oldIndex \in {g.currentIndex} |->
         Bind([exited \in {Call(g, <<"onStageExit", oldIndex>>)} |->
         Bind([switched \in {[exited EXCEPT !.gameUIVisible = FALSE,
                                            !.currentIndex = newIndex]} |->
         Bind([entered \in {Call(switched, <<"onStageEnter", newIndex>>)} |->
         [NotifyListeners(entered, 1, newIndex, oldIndex) EXCEPT !.ret = "true"]])])])])

\* cycleNext() that does not skip the drone view
cycleNextNoSkip(g) ==
    IF ~canCycle(g) THEN [g EXCEPT !.ret = "false"]
    ELSE [setStage(g, (g.currentIndex + 1) % NumStages) EXCEPT !.ret = "true"]

cycleNext(g) ==
    IF ~canCycle(g) THEN [g EXCEPT !.ret = "false"]
    ELSE Bind([next \in {(g.currentIndex + 1) % NumStages} |->
         [setStage(g, IF next = 4 THEN 5 ELSE next) EXCEPT !.ret = "true"]])

cyclePrev(g) ==
    IF ~canCycle(g) THEN [g EXCEPT !.ret = "false"]
    ELSE Bind([prev \in {IF g.currentIndex - 1 < 0 THEN NumStages - 1
                         ELSE g.currentIndex - 1} |->
         [setStage(g, IF prev = 4 THEN 3 ELSE prev) EXCEPT !.ret = "true"]])

\* goToStage() without the tests that guard the drone view
goToStageUnguarded(g, index, force) == setStage(g, index)

goToStage(g, index, force) ==
    IF ~force /\ index = 4 THEN [g EXCEPT !.ret = "false"]
    ELSE IF ~force /\ ~canCycle(g) /\ index # 0 THEN [g EXCEPT !.ret = "false"]
    ELSE setStage(g, index)

\* triggerAction(); loaded is what callbacks.tryLoadCannon() answers
triggerAction(g, loaded) ==
    Bind([stage \in {STAGES[g.currentIndex]} |->
    CASE stage.action = "goToDroneView" ->
            [setStage(g, 4) EXCEPT !.ret = "undefined"]
      [] stage.action = "toggleGameUI" ->
            IF stage.id = "setup-projectile" /\ loaded
            THEN Call(g, <<"tryLoadCannon", TRUE>>)
            ELSE Bind([asked \in {IF stage.id = "setup-projectile"
                                  THEN Call(g, <<"tryLoadCannon", FALSE>>)
                                  ELSE g} |->
                 Bind([toggled \in {[asked EXCEPT !.gameUIVisible = ~@]} |->
                 Call(toggled, <<"setGameUIVisible", stage.gameUI,
                                 toggled.gameUIVisible>>)])])
      [] stage.action = "fireCannon" ->
            Call(g, <<"fireCannon">>)
      [] stage.action = "exitDroneView" ->
            [setStage(g, 0) EXCEPT !.ret = "undefined"]
      [] OTHER -> g])

hideGameUI(g) == [g EXCEPT !.gameUIVisible = FALSE]

\* the call's outcome becomes the game state
CommitStage(call, outcome) ==
    /\ currentIndex' = outcome.currentIndex
    /\ gameUIVisible' = outcome.gameUIVisible
    /\ stageCall' = call
    /\ stageReturn' = outcome.ret
    /\ stageEvents' = outcome.events
    /\ stageSeen' = outcome.seen
    /\ listeners' = outcome.listeners
    /\ UNCHANGED <<cannonVars, heightQuery, droneVars>>

CycleNext == CommitStage(<<"cycleNext">>, cycleNext(Game))

CyclePrev == CommitStage(<<"cyclePrev">>, cyclePrev(Game))

GoToStage ==
    \E index \in StageArgs, force \in BOOLEAN :
        CommitStage(<<"goToStage", index, force>>, goToStage(Game, index, force))

TriggerAction ==
    \E loaded \in BOOLEAN :
        CommitStage(<<"triggerAction">>, triggerAction(Game, loaded))

HideGameUI == CommitStage(<<"hideGameUI">>, hideGameUI(Game))

\* onStageChange(fn): push, which answers the array's new length
onStageChange(g, fn) == [g EXCEPT !.listeners = Append(@, fn), !.ret = "length"]

OnStageChange ==
    /\ Len(listeners) < MaxListeners
    /\ \E fn \in {"hud", "audio"} :
          CommitStage(<<"onStageChange", fn>>, onStageChange(Game, fn))

NextStages ==
    \/ CycleNext
    \/ CyclePrev
    \/ GoToStage
    \/ TriggerAction
    \/ HideGameUI
    \/ OnStageChange

\* the stage machine starts in idle, whatever the session's terrain and weapon
InitStages == InitWith({CHOOSE setup \in Setups : TRUE})

SpecStages == InitStages /\ [][NextStages]_vars

----------------------------------------------------------------------------
(* Terrain height queries (getHeightAtWorld) from anywhere in the world *)

\* terrain.getHeightAt(worldX, worldZ): the samples read and the height returned
QueryHeight ==
    /\ \E worldX, worldZ \in {-1200, -801, -800, -799, -400, -1, 0, 250, 799, 800,
                              1200} :
          heightQuery' =
             <<[x |-> worldX,
                z |-> worldZ,
                samples |-> CornerIndices(worldX + halfSize, worldZ + halfSize),
                height |-> getHeightAtWorld(worldX, worldZ)]>>
    /\ UNCHANGED <<cannonVars, stageVars, droneVars>>

SpecTerrain ==
    InitWith({setup \in Setups : setup.terrain = "heightmap"}) /\ [][QueryHeight]_vars

----------------------------------------------------------------------------
(* Properties *)

Range(seq) == {seq[i] : i \in DOMAIN seq}

\* the projectile's position in flying, bouncing, rolling, stopped
Rank(state) ==
    CASE state = "flying" -> 0
      [] state = "bouncing" -> 1
      [] state = "rolling" -> 2
      [] state = "stopped" -> 3

\* the fields of a projectile that the physics owns
Core(p) == <<p.id, p.state, p.position, p.velocity, p.bounceCount>>

\* one projectile's step on its own, with no other projectile present
Advance(q, dt) ==
    LET air == IF q.state \in {"flying", "bouncing"}
               THEN AirborneStep(q, dt, 0).proj
               ELSE q
    IN IF air.state = "rolling" THEN RollingStep(air, dt).proj ELSE air

IsFireStep == lastResult' \in {"true", "false"}

IsUpdateStep == ticks' = ticks + 1

InCollection(id) == \E i \in DOMAIN projectiles : projectiles[i].id = id

\* C1: fire() returns false exactly when the cannon is not loaded at the call,
\* and a fire() that returns false leaves the projectiles, the loaded flag and
\* the smoke as they were and calls no weapon-adapter hook.
C1_FireFalseIffNotLoaded ==
    [][IsFireStep =>
          /\ (lastResult' = "false") <=> ~isLoaded
          /\ lastResult' = "false" =>
                /\ projectiles' = projectiles
                /\ isLoaded' = isLoaded
                /\ smokeParticles' = smokeParticles
                /\ loadedVisual' = loadedVisual
                /\ hookLog' = <<>>]_vars

\* a refused fire() with projectiles and smoke present
C1_Witness ==
    /\ lastResult = "false"
    /\ projectiles # <<>>
    /\ smokeParticles # <<>>

\* C2: after any fire() call the cannon is not loaded, and the number of
\* projectiles ever created never exceeds the number of loadCannon() calls.
C2_OneShotPerLoad ==
    /\ lastResult \in {"true", "false"} => ~isLoaded
    /\ nCreated <= nLoads

\* every load so far was fired
C2_Witness ==
    /\ nLoads = 2
    /\ nCreated = 2
    /\ lastResult = "true"

\* C3 as stated: from a successful fire() until its projectile is stopped (no
\* loadCannon or clearProjectiles in between), the cannon stays unloaded and
\* isBallAvailable() is false.
C3_UnavailableUntilStopped ==
    pending # 0 => ~isLoaded /\ ~IsBallAvailable

\* C3 amended: from a successful fire() until its projectile is stopped or has
\* been removed by the out-of-bounds check (no loadCannon or clearProjectiles
\* in between), the cannon stays unloaded and isBallAvailable() is false.
C3_UnavailableWhileInFlight ==
    (pending # 0 /\ InCollection(pending)) => ~isLoaded /\ ~IsBallAvailable

\* the fired projectile has bounced and is still in motion, behind a settled one
C3_Witness ==
    /\ pending # 0
    /\ \E i \in DOMAIN projectiles :
          /\ projectiles[i].id = pending
          /\ projectiles[i].state = "bouncing"
    /\ \E i \in DOMAIN projectiles : projectiles[i].state = "stopped"

\* C4 as stated: every stopped projectile has been notified exactly once.
C4_NotifiedExactlyOnce ==
    \A i \in DOMAIN projectiles :
        projectiles[i].state = "stopped" => projectiles[i].notifications = 1

\* C4 amended: a projectile is notified at most once; the notification is made
\* in the update in which it enters stopped if and only if a callback is
\* registered at that moment, and no other step ever notifies.
C4_NotifiedOnceIfRegistered ==
    [][\A q \in Range(projectiles') :
          IF \E p \in Range(projectiles) : p.id = q.id
          THEN \A p \in Range(projectiles) :
                  p.id = q.id =>
                     q.notifications =
                        IF p.state # "stopped" /\ q.state = "stopped"
                        THEN IF onBallStabilizedCallback # "null" THEN 1 ELSE 0
                        ELSE p.notifications
          ELSE q.notifications = 0]_vars

\* a projectile settled, was notified, and a later update has run
C4_Witness ==
    \E i \in DOMAIN projectiles :
        /\ projectiles[i].state = "stopped"
        /\ projectiles[i].notifications = 1
        /\ projectiles[i].stoppedAt < ticks

\* what a frame moves: each projectile's state, position and velocity
Motion(ps) ==
    [i \in DOMAIN ps |-> <<ps[i].id, ps[i].state, ps[i].position, ps[i].velocity>>]

\* C5: every fired projectile is in state stopped after a bounded number of
\* frames, so the frame loop never reaches a state with a projectile in motion
\* that a frame leaves exactly as it found it.
C5_NoPerpetualMotion ==
    \A dt \in LiveDtSet :
        (\E i \in DOMAIN projectiles : projectiles[i].state # "stopped") =>
            Motion(update(Cur, dt, 0, onBallStabilizedCallback).projectiles)
                # Motion(projectiles)

\* C6: no update() raises an exception.
C6_UpdateNeverThrows == ~threw

\* C7: per projectile the state never moves backward along flying, bouncing,
\* rolling, stopped, a rolling projectile stays on the ground, and a projectile
\* enters stopped only as the outcome of the rolling step.
C7_StateMovesForward ==
    [][\A p \in Range(projectiles), q \in Range(projectiles') :
          p.id = q.id =>
             /\ Rank(p.state) <= Rank(q.state)
             /\ (p.state # "stopped" /\ q.state = "stopped") =>
                   \E dt \in DtSet :
                      LET rolling == IF p.state = "rolling" THEN p
                                     ELSE AirborneStep(p, dt, 0).proj
                      IN /\ rolling.state = "rolling"
                         /\ RollingStep(rolling, dt).stoppedNow
                         /\ Core(q) = Core(RollingStep(rolling, dt).proj)]_vars

\* a projectile that bounced, rolled and settled
C7_Witness ==
    \E i \in DOMAIN projectiles :
        /\ projectiles[i].state = "stopped"
        /\ projectiles[i].bounceCount >= 1
        /\ projectiles[i].velocity = Zero3

\* C8: a stopped projectile has zero velocity, and every step that does not
\* call clearProjectiles() keeps it in the collection with its position,
\* velocity, bounce count and state unchanged.
C8_StoppedIsFrozen ==
    [][\A p \in Range(projectiles) :
          p.state = "stopped" =>
             /\ p.velocity = Zero3
             /\ ~cleared' => \E q \in Range(projectiles') : Core(q) = Core(p)]_vars

\* a settled projectile that has since been through another update
C8_Witness ==
    /\ ~cleared
    /\ \E i \in DOMAIN projectiles :
          /\ projectiles[i].state = "stopped"
          /\ projectiles[i].stoppedAt > 0
          /\ projectiles[i].stoppedAt < ticks

\* C9: every projectile an update has advanced and kept has its centre at or
\* above groundHeight + ballRadius at its own (x, z).
C9_NoTunneling ==
    \A i \in DOMAIN projectiles :
        projectiles[i].firedAt < ticks =>
            projectiles[i].position.y >=
                getGroundHeight(projectiles[i].position.x,
                                projectiles[i].position.z) + ballRadius

\* a projectile clamped onto raised ground
C9_Witness ==
    \E i \in DOMAIN projectiles :
        /\ projectiles[i].firedAt < ticks
        /\ projectiles[i].state \in {"bouncing", "rolling"}
        /\ getGroundHeight(projectiles[i].position.x,
                           projectiles[i].position.z) > 0
        /\ projectiles[i].position.y =
              getGroundHeight(projectiles[i].position.x,
                              projectiles[i].position.z) + ballRadius

\* the collection update() leaves when each projectile is advanced on its own
\* and those beyond the bounds radius are dropped
Kept(dt) ==
    SelectSeq([i \in DOMAIN projectiles |->
                  IF projectiles[i].state = "stopped" THEN projectiles[i]
                  ELSE Advance(projectiles[i], dt)],
              LAMBDA p : Length(p.position) <= BoundsRadius)

\* C10: no projectile in the collection is farther than the bounds radius from
\* the origin, and an update that removes projectiles leaves every other
\* projectile exactly as its own step leaves it.
C10_OutOfBoundsRemoved ==
    [][/\ \A q \in Range(projectiles') : Length(q.position) <= BoundsRadius
       /\ (IsUpdateStep /\ ~cleared') =>
             \E dt \in DtSet :
                LET kept == Kept(dt)
                IN /\ Len(projectiles') >= Len(kept)
                   /\ \A i \in DOMAIN kept :
                         Core(projectiles'[i]) = Core(kept[i])]_vars

\* an update dropped a projectile while another, fired before that update,
\* is still in the collection
C10_Witness ==
    /\ lostAt > 0
    /\ \E i \in DOMAIN projectiles :
          /\ projectiles[i].firedAt < lostAt
          /\ projectiles[i].position # projectiles[i].launchPosition

----------------------------------------------------------------------------
(* Determinism *)

\* the physical state of every projectile of a system state
Physical(s) == [i \in DOMAIN s.projectiles |-> Core(s.projectiles[i])]

\* the system state with the smoke module's data replaced: no particle alive
\* and every projectile's spawn timer at t; a timer of -1 s keeps the module
\* from emitting in the next tick, as if it were switched off
Unsmoked(s, t) ==
    [s EXCEPT !.smokeParticles = <<>>,
              !.projectiles = [i \in DOMAIN @ |-> [@[i] EXCEPT !.smokeTimer = t]]]

\* C11: from any reachable state, a tick of a given dt leaves every projectile
\* with the same state, position, velocity and bounce count whatever random
\* value the smoke drift draws, whatever smoke particles are alive and whether
\* or not the spawn timers let smoke be emitted in this tick; two runs that
\* agree on the projectiles and the dt sequence therefore agree after every tick
C11_Deterministic ==
    \A dt \in DtSet :
        \E reference \in {Physical(update(Cur, dt, CHOOSE r \in RandSet : TRUE,
                                           onBallStabilizedCallback))} :
            \A r \in RandSet : \A t \in {0, -Milli} :
                /\ Physical(update(Cur, dt, r, onBallStabilizedCallback)) = reference
                /\ Physical(update(Unsmoked(Cur, t), dt, r,
                                   onBallStabilizedCallback)) = reference

\* a tick in which smoke is emitted, with a drift that depends on the random
\* value drawn, while the same tick from the smokeless state emits none
C11_Witness ==
    \E dt \in DtSet : \E r1, r2 \in RandSet :
        /\ update(Cur, dt, r1, onBallStabilizedCallback).smokeParticles
              # update(Cur, dt, r2, onBallStabilizedCallback).smokeParticles
        /\ update(Unsmoked(Cur, -Milli), dt, r1, onBallStabilizedCallback).smokeParticles
              = <<>>

----------------------------------------------------------------------------
(* Parameters captured at fire time *)

----------------------------------------------------------------------------
(* Launch speed *)

\* the launch speed the shot profile assigns to a selection:
\* baseSpeed x chargeMultiplier(charge) x kickSpeedMultiplier(kick)
ShotSpeed(sel) ==
    Div(Div(SHOT_PROFILE.baseSpeed * SHOT_PROFILE.charge[sel.charge], 100)
        * SHOT_PROFILE.kick[sel.kick].speedMult, 100)

\* C13: right after a successful fire(selection), the speed of the projectile
\* it created is baseSpeed x chargeMultiplier(charge) x kickSpeedMultiplier(kick)
\* for the selection that was passed
C13_LaunchSpeedFromShotProfile ==
    (lastResult = "true" /\ selection \in Selections)
        => Length(projectiles[Len(projectiles)].velocity) = ShotSpeed(selection)

----------------------------------------------------------------------------
(* Energy of a bounce *)

\* the velocity a projectile in the air meets the ground with in a tick of dt
ImpactVelocity(p, dt) == AddScaled(p.velocity, gravity, dt)

\* the ground normal where that tick takes it
ImpactNormal(p, dt) ==
    Bind([moved \in {AddScaled(p.position, ImpactVelocity(p, dt), dt)} |->
    getGroundNormal(moved.x, moved.z)])

\* physics.baseRestitution * massRatio * speedFactor, before the cap
RawRestitution(p, dt) ==
    Bind([impactSpeed \in {Abs(Dot(ImpactVelocity(p, dt), ImpactNormal(p, dt)))} |->
    Div(Div(physics.baseRestitution * Min(Div(p.mass * Unit, 20), 150), Unit)
        * Max(800, Milli - Div(impactSpeed * 5, Unit)), Milli)])

\* the projectile is in the air and a tick of dt makes it bounce
Bounces(p, dt) ==
    /\ p.state \in {"flying", "bouncing"}
    /\ AirborneStep(p, dt, 0).proj.bounceCount = p.bounceCount + 1

\* C14: whenever a tick makes a projectile bounce, the speed it leaves the
\* ground with is at most the speed it arrived with, and the part of it along
\* the ground normal is at most 0.95 of the arriving one
C14_BounceAddsNoEnergy ==
    \A i \in DOMAIN projectiles : \A dt \in DtSet :
        Bounces(projectiles[i], dt)
            => \E before \in {ImpactVelocity(projectiles[i], dt)},
                  after \in {AirborneStep(projectiles[i], dt, 0).proj.velocity},
                  normal \in {ImpactNormal(projectiles[i], dt)} :
                   /\ Length(after) <= Length(before)
                   /\ Abs(Dot(after, normal)) * Milli
                         <= 950 * Abs(Dot(before, normal))

\* a bounce on sloping ground whose computed restitution exceeds the 0.95 cap
C14_Witness ==
    \E i \in DOMAIN projectiles : \E dt \in DtSet :
        /\ Bounces(projectiles[i], dt)
        /\ RawRestitution(projectiles[i], dt) > 950
        /\ ImpactNormal(projectiles[i], dt) # Vec(0, Unit, 0)

----------------------------------------------------------------------------
(* The last-ball queries *)

\* the projectiles of the collection fired after every other one in it
LastLive ==
    {p \in Range(projectiles) : \A q \in Range(projectiles) : q.id <= p.id}

\* the projectiles of the collection created by the latest successful fire()
LastFired == {p \in Range(projectiles) : p.id = nCreated}

\* the horizontal distance of a projectile from where it was launched
Travelled(p) ==
    Length(Vec(p.position.x - p.launchPosition.x, 0,
               p.position.z - p.launchPosition.z))

\* C15 as stated: isBallStabilized() is true exactly when the projectile of the
\* latest fire() is stopped, getBallPosition() and getBallDistance() report that
\* projectile, and they are null exactly when the collection is empty
C15_QueriesReportLastFired ==
    /\ IsBallStabilized <=> \E p \in LastFired : p.state = "stopped"
    /\ projectiles # <<>> =>
          /\ getBallPosition \in {<<p.position>> : p \in LastFired}
          /\ getBallDistance \in {<<Travelled(p)>> : p \in LastFired}
    /\ projectiles = <<>> <=> getBallPosition = <<>>
    /\ projectiles = <<>> <=> getBallDistance = <<>>

\* C15 (amended): isBallStabilized() is true exactly when the most recently
\* fired projectile still in the collection is stopped (false when the
\* collection is empty), getBallPosition() and getBallDistance() report that
\* projectile, and they are null exactly when the collection is empty
C15_QueriesReportLastLive ==
    /\ IsBallStabilized <=> \E p \in LastLive : p.state = "stopped"
    /\ projectiles # <<>> =>
          /\ getBallPosition \in {<<p.position>> : p \in LastLive}
          /\ getBallDistance \in {<<Travelled(p)>> : p \in LastLive}
    /\ projectiles = <<>> <=> getBallPosition = <<>>
    /\ projectiles = <<>> <=> getBallDistance = <<>>

\* two projectiles in the collection, the earlier still moving and the later
\* one stopped away from where the earlier is
C15_Witness ==
    /\ Len(projectiles) = 2
    /\ projectiles[1].state # "stopped"
    /\ projectiles[2].state = "stopped"
    /\ projectiles[1].position # projectiles[2].position
    /\ IsBallStabilized

----------------------------------------------------------------------------
(* clearProjectiles() *)

IsClearStep == cleared' /\ ~IsUpdateStep

\* C16: a call of clearProjectiles() leaves the collection empty whatever the
\* states of the projectiles in it, and leaves the loaded flag, the registered
\* callback and the smoke particles as they were; and every stabilized
\* notification is for a projectile that is in the collection when the
\* operation starts or is fired during it, so a projectile that was cleared
\* is never notified afterwards
C16_ClearEmptiesAndSilences ==
    [][/\ IsClearStep =>
             /\ projectiles' = <<>>
             /\ isLoaded' = isLoaded
             /\ onBallStabilizedCallback' = onBallStabilizedCallback
             /\ smokeParticles' = smokeParticles
             /\ notifiedLog' = <<>>
       /\ \A k \in DOMAIN notifiedLog' :
             InCollection(notifiedLog'[k]) \/ notifiedLog'[k] > nCreated
      ]_vars
\* clearProjectiles() has just removed the only projectile ever fired, which
\* was still in flight trailing smoke, with the cannon loaded again and a
\* callback registered
C16_Witness ==
    /\ cleared
    /\ projectiles = <<>>
    /\ nCreated = 1
    /\ ticks = 1
    /\ lostAt = 0
    /\ smokeParticles # <<>>
    /\ isLoaded
    /\ onBallStabilizedCallback # "null"

----------------------------------------------------------------------------
(* setWeaponAdapter(adapter) *)

IsSetWeaponAdapterStep == adapterSet' # adapterSet

\* C17: setWeaponAdapter(adapter) leaves the loaded flag, the projectiles, the
\* smoke and both weapons' loaded-ball visuals as they were and calls no hook;
\* and every successful fire() launches from the muzzle, along the firing
\* direction, of the adapter last given, and calls that adapter's hooks only
C17_AdapterSwapOnlyRetargets ==
    [][/\ IsSetWeaponAdapterStep =>
             /\ isLoaded' = isLoaded
             /\ projectiles' = projectiles
             /\ smokeParticles' = smokeParticles
             /\ loadedVisual' = loadedVisual
             /\ hookLog' = <<>>
       /\ lastResult' = "true" =>
             \E new \in {projectiles'[Len(projectiles')]} :
                 /\ new.position = getMuzzlePosition(adapterSet)
                 /\ new.velocity = VScale(getFiringDirection(adapterSet),
                                          ParseFloatOr(velocityInput, 20 * Unit),
                                          Unit)
                 /\ \A k \in DOMAIN hookLog' : hookLog'[k][1] = adapterSet
      ]_vars

\* a ball fired from the mortar is in the collection, next to one fired from
\* the howitzer, after the cannon was loaded while the howitzer was installed:
\* the weapon was switched between loading and firing
C17_Witness ==
    /\ lastResult = "true"
    /\ adapterSet = "mortar"
    /\ loadedVisual["howitzer"]
    /\ Len(projectiles) = 2
    /\ projectiles[1].launchPosition = getMuzzlePosition("howitzer")
    /\ projectiles[2].launchPosition = getMuzzlePosition("mortar")
    /\ projectiles[1].state # "flying"

----------------------------------------------------------------------------
(* The flat-plane fallback *)

\* where a tick of dt takes a projectile in the air, before any collision
Moved(p, dt) == AddScaled(p.position, ImpactVelocity(p, dt), dt)

\* the tick makes the projectile meet the ground: it bounces or starts rolling
GroundEvent(p, dt) ==
    \E after \in {AirborneStep(p, dt, 0).proj} :
        after.state = "rolling" \/ after.bounceCount = p.bounceCount + 1

\* C18: with no terrain, or a terrain object without getHeightAt and
\* getNormalAt, the ground queries at every projectile's position, and at the
\* position its next tick reaches, return height 0 and normal (0, 1, 0), and a
\* tick makes a projectile in the air meet the ground exactly when it takes
\* the ball to position.y <= ballRadius, where it is put back at ballRadius
C18_FlatPlaneFallback ==
    terrain \in {"none", "bare"} =>
        \A i \in DOMAIN projectiles : \A dt \in DtSet :
            \E p \in {projectiles[i]} : \E moved \in {Moved(p, dt)} :
                /\ getGroundHeight(p.position.x, p.position.z) = 0
                /\ getGroundNormal(p.position.x, p.position.z) = Vec(0, Unit, 0)
                /\ getGroundHeight(moved.x, moved.z) = 0
                /\ getGroundNormal(moved.x, moved.z) = Vec(0, Unit, 0)
                /\ p.state \in {"flying", "bouncing"} =>
                      /\ GroundEvent(p, dt) <=> moved.y <= ballRadius
                      /\ GroundEvent(p, dt) =>
                            AirborneStep(p, dt, 0).proj.position.y = ballRadius
                /\ p.state \in {"rolling", "stopped"} => p.position.y = ballRadius

\* on the fallback plane of a terrain object without the two methods, a ball
\* away from the origin is about to meet the ground, and another has settled
C18_Witness ==
    /\ terrain = "bare"
    /\ \E i \in DOMAIN projectiles : \E dt \in DtSet :
          /\ projectiles[i].state = "flying"
          /\ projectiles[i].position.x # 0
          /\ GroundEvent(projectiles[i], dt)
    /\ \E i \in DOMAIN projectiles : projectiles[i].state = "stopped"

----------------------------------------------------------------------------
(* Stage cycling and the drone view *)

\* the ring the player cycles through, in order
Ring == <<0, 1, 2, 3, 5>>

\* the place of a stage in the ring
RingPlace(index) == CHOOSE k \in DOMAIN Ring : Ring[k] = index

\* the call did nothing: same stage, same UI flag, no callback
StageUntouched ==
    /\ currentIndex' = currentIndex
    /\ gameUIVisible' = gameUIVisible
    /\ stageEvents' = <<>>

\* C19: from a stage of the ring idle, setup-projectile, adjust-cannon,
\* fire-cannon, move-next, cycleNext() moves to the next stage of the ring and
\* cyclePrev() to the previous one, both returning true and neither making
\* drone-view (index 4) current; in drone-view both return false and leave the
\* stage as it is
C19_CyclingSkipsDroneView ==
    [][/\ stageCall' = <<"cycleNext">> =>
             IF currentIndex = 4
             THEN stageReturn' = "false" /\ StageUntouched
             ELSE /\ stageReturn' = "true"
                  /\ currentIndex' = Ring[(RingPlace(currentIndex) % Len(Ring)) + 1]
                  /\ currentIndex' # 4
       /\ stageCall' = <<"cyclePrev">> =>
             IF currentIndex = 4
             THEN stageReturn' = "false" /\ StageUntouched
             ELSE /\ stageReturn' = "true"
                  /\ currentIndex' =
                        Ring[((RingPlace(currentIndex) + Len(Ring) - 2) % Len(Ring)) + 1]
                  /\ currentIndex' # 4
      ]_vars

\* cycleNext() has just gone from fire-cannon to move-next, over the drone view
C19_Witness ==
    /\ stageCall = <<"cycleNext">>
    /\ stageReturn = "true"
    /\ currentIndex = 5
    /\ stageEvents[1] = <<"onStageExit", 3>>

\* the call was goToStage(index, force)
IsGoToStage(index, force) == stageCall' = <<"goToStage", index, force>>

\* the call was a goToStage with force = true
IsForced == stageCall'[1] = "goToStage" /\ stageCall'[3]

\* C20: the stage becomes drone-view only by triggerAction() in idle or by
\* goToStage(4, true); goToStage(4) without force returns false and changes
\* nothing; in drone-view every unforced goToStage(i) with i # 0 returns false
\* and changes nothing; and the only unforced calls that leave drone-view are
\* triggerAction() and goToStage(0), both of which lead to idle
C20_DroneViewGate ==
    [][/\ (currentIndex # 4 /\ currentIndex' = 4) =>
             \/ stageCall' = <<"triggerAction">> /\ currentIndex = 0
             \/ IsGoToStage(4, TRUE)
       /\ IsGoToStage(4, FALSE) => stageReturn' = "false" /\ StageUntouched
       /\ \A i \in StageArgs \ {0} :
             (currentIndex = 4 /\ IsGoToStage(i, FALSE))
                => stageReturn' = "false" /\ StageUntouched
       /\ (currentIndex = 4 /\ currentIndex' # 4 /\ ~IsForced) =>
             /\ currentIndex' = 0
             /\ stageCall' = <<"triggerAction">> \/ IsGoToStage(0, FALSE)
      ]_vars

\* the player is in the drone view, entered by triggerAction() from idle
C20_Witness ==
    /\ currentIndex = 4
    /\ stageCall = <<"triggerAction">>
    /\ stageEvents[1] = <<"onStageExit", 0>>

----------------------------------------------------------------------------
(* The end of a roll *)

\* the projectile as the rolling branch of a tick of dt finds it: a projectile
\* in the air first goes through that tick's airborne branch
EntersRolling(p, dt) ==
    IF p.state \in {"flying", "bouncing"} THEN AirborneStep(p, dt, 0).proj ELSE p

\* the tangential acceleration of gravity on the slope where the projectile is
SlopeAccel(p) ==
    Bind([normal \in {getGroundNormal(p.position.x, p.position.z)} |->
    VSub(gravity, VScale(normal, Dot(gravity, normal), Unit))])

\* the speed the rolling branch of a tick of dt measures
RollSpeed(p, dt) ==
    Bind([normal \in {getGroundNormal(p.position.x, p.position.z)} |->
    Bind([accelerated \in {AddScaled(p.velocity, SlopeAccel(p), dt)} |->
    Bind([vDotN \in {Dot(accelerated, normal)} |->
    Length(IF vDotN < 0 THEN VSub(accelerated, VScale(normal, vDotN, Unit))
           ELSE accelerated)])])])

\* the slow-roll timer after the rolling branch of a tick of dt has updated it
SlowRollTimer(p, dt) ==
    IF RollSpeed(p, dt) < physics.slowRollSpeed THEN p.slowRollTime + dt ELSE 0

\* C21 as stated: a tick stops a rolling projectile only if its speed is below
\* 0.1 or its slow-roll timer has expired, and the slope acceleration where it
\* is lies below 0.2; it never stops where the slope acceleration is 0.2 or more
C21_StopsOnlyBelowSlopeThreshold ==
    \A i \in DOMAIN projectiles : \A dt \in DtSet :
        \E q \in {EntersRolling(projectiles[i], dt)} :
            (q.state = "rolling" /\ RollingStep(q, dt).stoppedNow) =>
                /\ \/ RollSpeed(q, dt) < physics.minRollVelocity
                   \/ SlowRollTimer(q, dt) >= physics.maxSlowRollTime
                /\ Length(SlopeAccel(q)) < physics.minRollVelocity * 2

\* C21 (amended): a tick stops a rolling projectile only if its slow-roll timer
\* has expired, or its speed is below 0.1 and the slope acceleration where it
\* is lies below 0.2; an expired timer stops it whatever the slope acceleration
C21_StopsOnTimerOrAtRest ==
    \A i \in DOMAIN projectiles : \A dt \in DtSet :
        \E q \in {EntersRolling(projectiles[i], dt)} :
            q.state = "rolling" =>
                (RollingStep(q, dt).stoppedNow <=>
                    \/ SlowRollTimer(q, dt) >= physics.maxSlowRollTime
                    \/ /\ RollSpeed(q, dt) < physics.minRollVelocity
                       /\ Length(SlopeAccel(q)) < physics.minRollVelocity * 2)

\* a projectile stopped by its slow-roll timer where the slope acceleration is
\* 0.2 or more
C21_Witness ==
    \E i \in DOMAIN projectiles :
        /\ projectiles[i].state = "stopped"
        /\ projectiles[i].slowRollTime >= physics.maxSlowRollTime
        /\ Length(SlopeAccel(projectiles[i])) >= physics.minRollVelocity * 2

----------------------------------------------------------------------------
(* The slow-roll timer *)

\* the projectile with the given id after update(dt), as a set: empty when the
\* update removed it
After(id, dt) ==
    {q \in Range(update(Cur, dt, 0, onBallStabilizedCallback).projectiles) :
        q.id = id}

\* C22: an update(dt) leaves a rolling projectile's slow-roll timer at its old
\* value plus dt when the speed of that tick is below 0.5 and at 0 when it is
\* 0.5 or more; when the timer reaches 2.0 s the projectile is stopped in that
\* same update; so no rolling projectile in the collection has a timer of 2.0 s
\* or more
C22_SlowRollTimer ==
    \A i \in DOMAIN projectiles :
        projectiles[i].state = "rolling" =>
            /\ projectiles[i].slowRollTime < 2 * Milli
            /\ \A dt \in DtSet : \A q \in After(projectiles[i].id, dt) :
                  /\ q.slowRollTime =
                        IF RollSpeed(projectiles[i], dt) < Unit \div 2
                        THEN projectiles[i].slowRollTime + dt
                        ELSE 0
                  /\ q.slowRollTime >= 2 * Milli => q.state = "stopped"
                  /\ q.state = "rolling" => q.slowRollTime < 2 * Milli

\* a projectile that has rolled slowly for 1.95 s, which the next frame stops,
\* next to one that its timer has stopped already
C22_Witness ==
    /\ \E i \in DOMAIN projectiles : \E dt \in {50} :
          /\ projectiles[i].state = "rolling"
          /\ projectiles[i].slowRollTime = 2 * Milli - dt
          /\ \A q \in After(projectiles[i].id, dt) : q.state = "stopped"
    /\ \E i \in DOMAIN projectiles :
          /\ projectiles[i].state = "stopped"
          /\ projectiles[i].slowRollTime = 2 * Milli

----------------------------------------------------------------------------
(* Ground events and the bounce count *)

\* a tick of dt takes the projectile to or below the floor height: the tick
\* has a ground event
Lands(p, dt) ==
    \E moved \in {Moved(p, dt)} :
        moved.y <= getGroundHeight(moved.x, moved.z) + ballRadius

\* Math.abs(velocity.dot(normal)) at that ground event
ImpactSpeed(p, dt) == Abs(Dot(ImpactVelocity(p, dt), ImpactNormal(p, dt)))

\* what a tick of dt may do to the state and bounce count of projectile p,
\* found as q afterwards
GroundEventRule(p, q, dt) ==
    IF p.state \in {"flying", "bouncing"} /\ Lands(p, dt)
    THEN IF ImpactSpeed(p, dt) < Unit \div 2
         THEN /\ AirborneStep(p, dt, 0).proj.state = "rolling"
              /\ q.state \in {"rolling", "stopped"}
              /\ q.bounceCount = p.bounceCount
         ELSE /\ AirborneStep(p, dt, 0).proj.state = "bouncing"
              /\ q.state = "bouncing"
              /\ q.bounceCount = p.bounceCount + 1
    ELSE q.bounceCount = p.bounceCount

\* C23: an update in which an airborne projectile meets the ground makes it
\* rolling, with its bounce count unchanged, when the impact speed along the
\* terrain normal is below 0.5 (the rolling branch of the same update may then
\* stop it), and bouncing, with its bounce count one higher, otherwise; in
\* every other case and in every other operation the bounce count of a
\* projectile stays as it is, and a new projectile starts with count 0
C23_GroundEventAndBounceCount ==
    [][\A q \in Range(projectiles') :
          IF \E p \in Range(projectiles) : p.id = q.id
          THEN \A p \in Range(projectiles) :
                  p.id = q.id =>
                     /\ q.bounceCount >= p.bounceCount
                     /\ IF IsUpdateStep
                        THEN \E dt \in DtSet : GroundEventRule(p, q, dt)
                        ELSE q.bounceCount = p.bounceCount
          ELSE q.bounceCount = 0]_vars

\* a projectile that has bounced is about to meet the ground below the bounce
\* threshold, while another is about to bounce
C23_Witness ==
    /\ \E i \in DOMAIN projectiles : \E dt \in DtSet :
          /\ projectiles[i].state = "bouncing"
          /\ projectiles[i].bounceCount >= 1
          /\ Lands(projectiles[i], dt)
          /\ ImpactSpeed(projectiles[i], dt) < Unit \div 2
    /\ \E i \in DOMAIN projectiles : \E dt \in DtSet :
          /\ projectiles[i].state \in {"flying", "bouncing"}
          /\ Lands(projectiles[i], dt)
          /\ ImpactSpeed(projectiles[i], dt) >= Unit \div 2

----------------------------------------------------------------------------
(* One pass over the projectiles, then the smoke *)

\* C24: an update(dt) advances every projectile that is in the collection and
\* not stopped when it starts exactly once, by its own step, and advances no
\* stopped one, whatever is removed in the same pass; and it ages the smoke
\* after the projectiles, so that every particle in the collection afterwards,
\* those emitted in this update included, has aged by dt
C24_EachAdvancedOnceThenSmoke ==
    [][IsUpdateStep =>
          \E dt \in DtSet :
             /\ \A p \in Range(projectiles) :
                   /\ Cardinality({k \in DOMAIN advancedLog' : advancedLog'[k] = p.id}) =
                         IF p.state # "stopped" THEN 1 ELSE 0
                   /\ \A q \in Range(projectiles') :
                         (q.id = p.id /\ p.state # "stopped")
                            => Core(q) = Core(Advance(p, dt))
             /\ \A k \in DOMAIN smokeParticles' : smokeParticles'[k].age >= dt
      ]_vars

----------------------------------------------------------------------------
(* The life of a smoke particle *)

\* the particles that are younger than the lifetime after another dt
Survivors(dt) ==
    SelectSeq(smokeParticles, LAMBDA sm : sm.age + dt < smokeConfig.lifetime)

\* the projectiles in the air whose speed in a tick of dt exceeds 5
Emitters(dt) ==
    {i \in DOMAIN projectiles :
        /\ projectiles[i].state \in {"flying", "bouncing"}
        /\ Length(ImpactVelocity(projectiles[i], dt)) > 5 * Unit}

\* C25: every smoke particle in the collection is younger than the lifetime of
\* 2.0 s; an update(dt) keeps, in order and aged by dt, exactly the particles
\* that are still younger than the lifetime after dt, and adds after them at
\* most one particle for each projectile in the air whose speed exceeds 5,
\* placed where that projectile has moved to
C25_SmokeLifetime ==
    /\ \A k \in DOMAIN smokeParticles : smokeParticles[k].age < 2 * Milli
    /\ \A dt \in DtSet : \A r \in RandSet :
          \E after \in {update(Cur, dt, r, onBallStabilizedCallback).smokeParticles},
             kept \in {Survivors(dt)} :
              /\ Len(after) >= Len(kept)
              /\ Len(after) - Len(kept) <= Cardinality(Emitters(dt))
              /\ \A k \in DOMAIN after :
                    /\ after[k].age < 2 * Milli
                    /\ IF k <= Len(kept)
                       THEN /\ after[k].age = kept[k].age + dt
                            /\ after[k].drift = kept[k].drift
                       ELSE /\ after[k].age = dt
                            /\ \E i \in Emitters(dt) :
                                  after[k].position =
                                     AddScaled(Moved(projectiles[i], dt),
                                               after[k].drift, dt)

\* a particle in its last frame, next to a ball that trails smoke: the next
\* frame removes the one and adds another
C25_Witness ==
    \E dt \in LiveDtSet :
        /\ Len(Survivors(dt)) < Len(smokeParticles)
        /\ Emitters(dt) # {}
        /\ \E sm \in Range(update(Cur, dt, 0, onBallStabilizedCallback).smokeParticles) :
              sm.age = dt

----------------------------------------------------------------------------
(* Terrain queries outside the terrain *)

\* C26: for every world (x, z), inside the terrain, on its edge or outside it,
\* the four samples a height query reads have indices within
\* 0 .. (resolution + 1)^2 - 1, all of them entries of the height array, and
\* the height returned is a number between 0 and maxHeight, the one returned
\* for the point with both coordinates clamped to the terrain's edge
C26_HeightQueryInBounds ==
    \A q \in Range(heightQuery) :
        /\ \A k \in 1..4 :
              /\ q.samples[k] \in 0..(verticesPerSide * verticesPerSide - 1)
              /\ q.samples[k] + 1 \in DOMAIN heightData
        /\ q.height \in 0..terrainConfig.maxHeight
        /\ q.height = getHeightAtWorld(Max(-halfSize, Min(halfSize, q.x)),
                                      Max(-halfSize, Min(halfSize, q.z)))

\* a query beyond the terrain's corner, which reads the corner sample and the
\* edge sample next to it, each twice
C26_Witness ==
    \E q \in Range(heightQuery) :
        /\ q.x > halfSize
        /\ q.z < -halfSize
        /\ q.samples = <<terrainConfig.resolution, terrainConfig.resolution,
                         verticesPerSide + terrainConfig.resolution,
                         verticesPerSide + terrainConfig.resolution>>

----------------------------------------------------------------------------
(* The loaded-ball visual *)

\* C27 as stated: after any sequence of loadCannon, unloadCannon, fire and
\* setWeaponAdapter calls, the loaded-ball visual of the installed weapon
\* adapter is shown exactly when the cannon is loaded
C27_VisualMatchesLoaded == loadedVisual[weaponAdapter] = isLoaded

\* C27 (amended): every call that invokes an adapter hook (loadCannon,
\* unloadCannon, a successful fire) leaves the installed adapter's visual shown
\* exactly when the cannon is loaded and leaves every other adapter's visual as
\* it was; every call that invokes none (a refused fire, setWeaponAdapter)
\* changes neither the loaded flag nor any visual, so a weapon switched in
\* keeps the visual it had
C27_VisualSyncedByHooks ==
    [][/\ hookLog' # <<>> => loadedVisual'[weaponAdapter'] = isLoaded'
       /\ hookLog' = <<>> => loadedVisual' = loadedVisual /\ isLoaded' = isLoaded
       /\ \A a \in (Adapters \cup {"cannon"}) \ {weaponAdapter'} :
             loadedVisual'[a] = loadedVisual[a]
      ]_vars

\* the cannon was loaded under one weapon and loaded again after the switch to
\* the other: both weapons show a ball
C27_Witness ==
    /\ isLoaded
    /\ hookLog # <<>>
    /\ \A a \in Adapters : loadedVisual[a]

----------------------------------------------------------------------------
(* The Game UI flag *)

\* C28: isGameUIVisible() is true only while the stage is setup-projectile or
\* adjust-cannon; every stage change leaves it false; triggerAction() changes
\* it only in those two stages, where it inverts it without changing the stage,
\* except in setup-projectile when tryLoadCannon answers true, where it leaves
\* it alone; no other call sets it to true
C28_GameUIOnlyInUIStages ==
    [][/\ gameUIVisible' =>
             STAGES[currentIndex'].id \in {"setup-projectile", "adjust-cannon"}
       /\ currentIndex' # currentIndex => ~gameUIVisible'
       /\ stageCall' = <<"triggerAction">> =>
             IF /\ STAGES[currentIndex].id \in {"setup-projectile", "adjust-cannon"}
                /\ ~(/\ stageEvents' # <<>>
                     /\ stageEvents'[1] = <<"tryLoadCannon", TRUE>>)
             THEN gameUIVisible' = ~gameUIVisible /\ currentIndex' = currentIndex
             ELSE IF STAGES[currentIndex].id \in {"setup-projectile", "adjust-cannon"}
             THEN /\ STAGES[currentIndex].id = "setup-projectile"
                  /\ gameUIVisible' = gameUIVisible
                  /\ currentIndex' = currentIndex
             ELSE ~gameUIVisible'
       /\ (gameUIVisible' /\ ~gameUIVisible) => stageCall' = <<"triggerAction">>
      ]_vars

\* in setup-projectile, with no ball to load, the stage action has just opened
\* the Game UI
C28_Witness ==
    /\ gameUIVisible
    /\ currentIndex = 1
    /\ stageCall = <<"triggerAction">>
    /\ stageEvents = <<<<"tryLoadCannon", FALSE>>,
                       <<"setGameUIVisible", "projectile", TRUE>>>>


\* ---------------------------------------------------------------------------
\* C29: the order of the callbacks of a stage transition
\* ---------------------------------------------------------------------------

\* goToStage(index, force) is one the code turns down
Rejected(index, force) ==
    \/ index < 0
    \/ index >= NumStages
    \/ index = currentIndex
    \/ ~force /\ index = 4
    \/ ~force /\ ~STAGES[currentIndex].canCycle /\ index # 0

\* C29: every step that changes the stage invoked onStageExit(old) while the
\* current stage was still the old one, then onStageEnter(new) and every
\* listener in registration order with (new, old), all three with the new stage
\* current; a cycling call or a goToStage that is turned down (index out of
\* range, the same stage, or blocked by the cycling and force rules) returns
\* false, invokes no callback and changes no game state.
C29_TransitionCallbackOrder ==
    [][/\ currentIndex' # currentIndex =>
             /\ stageEvents' =
                   <<<<"onStageExit", currentIndex>>, <<"onStageEnter", currentIndex'>>>>
                   \o [k \in 1..Len(listeners) |->
                          <<"listener", listeners[k], currentIndex', currentIndex>>]
             /\ stageSeen' =
                   <<currentIndex>> \o [k \in 1..(Len(listeners) + 1) |-> currentIndex']
             /\ listeners' = listeners
       /\ stageCall'[1] \in {"cycleNext", "cyclePrev"} /\ currentIndex' = currentIndex =>
             /\ stageReturn' = "false"
             /\ stageEvents' = <<>>
             /\ gameUIVisible' = gameUIVisible
             /\ listeners' = listeners
       /\ stageCall'[1] = "goToStage" =>
             /\ Rejected(stageCall'[2], stageCall'[3]) <=> currentIndex' = currentIndex
             /\ Rejected(stageCall'[2], stageCall'[3]) =>
                   /\ stageReturn' = "false"
                   /\ stageEvents' = <<>>
                   /\ gameUIVisible' = gameUIVisible
                   /\ listeners' = listeners]_vars

\* a transition with two listeners registered has run all four callbacks, the
\* first of them under the old stage
C29_Witness ==
    /\ stageCall = <<"cycleNext">>
    /\ currentIndex = 2
    /\ listeners = <<"audio", "hud">>
    /\ stageEvents = <<<<"onStageExit", 1>>, <<"onStageEnter", 2>>,
                       <<"listener", "audio", 2, 1>>, <<"listener", "hud", 2, 1>>>>
    /\ stageSeen = <<1, 2, 2, 2>>

\* ---------------------------------------------------------------------------
\* The drone camera (createDroneSystem): angles in degrees
\* ---------------------------------------------------------------------------

\* config.startOffset and config.cannonPosition, at their defaults
startOffset == [x |-> -3 * Unit, z |-> 5 * Unit]
cannonPosition == Vec(3 * Unit, 0, 0)

\* where the host may put the camera between two calls (walking on the ground,
\* flying the drone)
CameraPoses ==
    {[position |-> Vec(0, 2 * Unit, 5 * Unit), rotation |-> Zero3],
     [position |-> Vec(10 * Unit, 2 * Unit, -3 * Unit), rotation |-> Vec(0, 90, 0)],
     [position |-> Vec(-5 * Unit, 40 * Unit, 2 * Unit), rotation |-> Vec(-30, 0, 0)]}
\* the drone system and the camera an operation reads and writes, with what it
\* returned
Drone == [state |-> droneState, camera |-> camera, ret |-> [kind |-> "undefined"]]

\* activate() without the guard on state.active
activateUnguarded(d, currentYaw, currentPitch) ==
    [state |-> [d.state EXCEPT !.savedCameraPosition = d.camera.position,
                               !.savedCameraRotation = d.camera.rotation,
                               !.savedYaw = currentYaw,
                               !.savedPitch = currentPitch,
                               !.active = TRUE],
     camera |-> [d.camera EXCEPT !.position =
                     Vec(cannonPosition.x + startOffset.x,
                         d.state.startHeight,
                         cannonPosition.z + startOffset.z)],
     ret |-> [kind |-> "object", yaw |-> currentYaw, pitch |-> currentPitch]]

activate(d, currentYaw, currentPitch) ==
    IF d.state.active THEN [d EXCEPT !.ret = [kind |-> "undefined"]]
    ELSE [state |-> [d.state EXCEPT !.savedCameraPosition = d.camera.position,
                                    !.savedCameraRotation = d.camera.rotation,
                                    !.savedYaw = currentYaw,
                                    !.savedPitch = currentPitch,
                                    !.active = TRUE],
          camera |-> [d.camera EXCEPT !.position =
                          Vec(cannonPosition.x + startOffset.x,
                              d.state.startHeight,
                              cannonPosition.z + startOffset.z)],
          ret |-> [kind |-> "object", yaw |-> currentYaw, pitch |-> currentPitch]]

deactivate(d) ==
    IF ~d.state.active THEN [d EXCEPT !.ret = [kind |-> "null"]]
    ELSE [state |-> [d.state EXCEPT !.active = FALSE],
          camera |-> [position |-> d.state.savedCameraPosition,
                      rotation |-> d.state.savedCameraRotation],
          ret |-> [kind |-> "object", yaw |-> d.state.savedYaw,
                   pitch |-> d.state.savedPitch]]

\* { active: ..., ...result }: the answer of the inner call, with the new state
toggle(d, currentYaw, currentPitch) ==
    IF d.state.active
    THEN Bind([off \in {deactivate(d)} |->
              [off EXCEPT !.ret = [kind |-> "object", active |-> FALSE,
                                   yaw |-> off.ret.yaw, pitch |-> off.ret.pitch]]])
    ELSE Bind([on \in {activate(d, currentYaw, currentPitch)} |->
              [on EXCEPT !.ret = [kind |-> "object", active |-> TRUE,
                                  yaw |-> on.ret.yaw, pitch |-> on.ret.pitch]]])

setStartHeight(d, height) ==
    Bind([clamped \in {Max(10 * Unit, Min(2000 * Unit, height))} |->
         [d EXCEPT !.state.startHeight = clamped,
                   !.ret = [kind |-> "number", value |-> clamped]]])

\* a drone call returns: the system and the camera are as it left them
CommitDrone(call, outcome) ==
    /\ droneCall' = call
    /\ droneState' = outcome.state
    /\ camera' = outcome.camera
    /\ droneReturn' = outcome.ret
    /\ activation' =
          IF call[1] \in {"activate", "toggle"} /\ ~droneState.active
          THEN <<[position |-> camera.position, rotation |-> camera.rotation,
                  yaw |-> call[2], pitch |-> call[3]]>>
          ELSE activation
    /\ UNCHANGED <<cannonVars, stageVars, heightQuery>>

Activate ==
    \E yaw, pitch \in {0, 30, -45} :
        CommitDrone(<<"activate", yaw, pitch>>, activate(Drone, yaw, pitch))

Deactivate == CommitDrone(<<"deactivate">>, deactivate(Drone))

Toggle ==
    \E yaw, pitch \in {0, 30, -45} :
        CommitDrone(<<"toggle", yaw, pitch>>, toggle(Drone, yaw, pitch))

SetStartHeight ==
    \E height \in {5 * Unit, 50 * Unit, 3000 * Unit} :
        CommitDrone(<<"setStartHeight", height>>, setStartHeight(Drone, height))

\* the host moves the camera: the player walks, the drone flies
MoveCamera ==
    \E pose \in CameraPoses :
        /\ pose # camera
        /\ CommitDrone(<<"move">>, [Drone EXCEPT !.camera = pose])

NextDrone ==
    \/ Activate
    \/ Deactivate
    \/ Toggle
    \/ SetStartHeight
    \/ MoveCamera

SpecDrone ==
    InitWith({CHOOSE setup \in Setups : setup.terrain = "none"}) /\ [][NextDrone]_vars

\* ---------------------------------------------------------------------------
\* C30: drone activation round-trips
\* ---------------------------------------------------------------------------

\* C30: an activate() while inactive saves the camera and returns the yaw and
\* pitch it was passed; the next deactivate() puts the camera back at the
\* position and rotation it had at that activation, wherever it has been moved
\* since, and returns that yaw and pitch; activate() while active and
\* deactivate() while inactive change neither the drone system nor the camera;
\* every toggle() inverts isActive().
C30_ActivationRoundTrip ==
    [][/\ droneCall'[1] = "activate" /\ ~droneState.active =>
             /\ droneState'.active
             /\ droneReturn' = [kind |-> "object", yaw |-> droneCall'[2],
                                pitch |-> droneCall'[3]]
       /\ droneCall'[1] = "activate" /\ droneState.active =>
             /\ droneState' = droneState
             /\ camera' = camera
             /\ droneReturn'.kind = "undefined"
       /\ droneCall'[1] = "deactivate" /\ droneState.active =>
             /\ ~droneState'.active
             /\ camera'.position = activation[1].position
             /\ camera'.rotation = activation[1].rotation
             /\ droneReturn' = [kind |-> "object", yaw |-> activation[1].yaw,
                                pitch |-> activation[1].pitch]
       /\ droneCall'[1] = "deactivate" /\ ~droneState.active =>
             /\ droneState' = droneState
             /\ camera' = camera
             /\ droneReturn'.kind = "null"
       /\ droneCall'[1] = "toggle" =>
             /\ droneState'.active = ~droneState.active
             /\ droneReturn'.active = droneState'.active
             /\ droneState.active =>
                   /\ camera'.position = activation[1].position
                   /\ camera'.rotation = activation[1].rotation
                   /\ droneReturn'.yaw = activation[1].yaw
                   /\ droneReturn'.pitch = activation[1].pitch]_vars

\* a deactivate() has brought the camera back from the drone's flight to a pose
\* that is not the initial one, with the yaw and pitch of the activation
C30_Witness ==
    /\ droneCall = <<"deactivate">>
    /\ ~droneState.active
    /\ activation # <<>>
    /\ camera = [position |-> Vec(10 * Unit, 2 * Unit, -3 * Unit),
                 rotation |-> Vec(0, 90, 0)]
    /\ camera.position = activation[1].position
    /\ droneState.startHeight = 50 * Unit
    /\ droneReturn = [kind |-> "object", yaw |-> 30, pitch |-> -45]

====
